---- MODULE Spec2Model ----
(***************************************************************************)
(* A model of TreehornX: the IR (sorts, expressions, instructions,         *)
(* functions) and the lowering pass from C to the IR.                      *)
(*                                                                         *)
(* The module holds several specifications over one set of variables; each *)
(* specification drives one component and leaves the variables of the      *)
(* others at their idle values:                                            *)
(*   Spec          the parser's ScopeStack                                 *)
(*   SortSpec      the interning pools of Sort and EnumConst               *)
(*   ExprSpec      the associative operators over the nodes built so far   *)
(*   OpSpec        every operator class over operands of every sort and    *)
(*                 kind, sort_of, the pointer-assignment instructions      *)
(*   FunSpec       the construction of a Function and its info table       *)
(*   LowerSpec     the lowering of the statements of a function body       *)
(*   VisitSpec     the lowering of one expression, condition, return,      *)
(*                 assignment or call, over operands of every sort         *)
(*   FileSpec      the lowering of the top-level definitions of a file     *)
(*   EnvSpec       the construction of an Enviroment                       *)
(*   BlockSpec     the declarations and uses of variables in the nested    *)
(*                 blocks of a function body                               *)
(***************************************************************************)
EXTENDS Integers, Sequences, FiniteSets, TLC

VARIABLES
    \* ScopeStack (parser/_internal/cparser/ScopeStack.py)
    stack,          \* deque of frames, each a map base name -> Var
    vars_counters,  \* defaultdict(int): base name -> next index
    vars,           \* set of every Var ever declared
    decl_log,       \* history: the declare_variable calls that passed the redeclaration check
    got,            \* outcome of the last get_variable call
    scope_exc,      \* exception raised by the last ScopeStack call ("none" when it returned)
    \* Sort registry (ir/_internal/sorts, ir/expressions.py EnumConst)
    pool,           \* Sort._pool: the interned instances; an instance's identity is its index
    const_pool,     \* EnumConst._pool: the interned constants
    made,           \* history: every successful construction, with the instance it returned
    sort_exc,       \* exception raised by the last construction ("none" when it returned)
    struct_call,    \* history: the last Struct(...) call or fields read, and its outcome
    \* Expressions (ir/expressions.py)
    built,          \* the operator nodes constructed so far
    expr_call,      \* history: the last successful construction, its arguments and its result
    expr_exc,       \* exception raised by the last construction ("none" when it returned)
    op_call,        \* the last operator construction over all operand kinds, and its outcome
    \* Function (ir/function.py)
    function,       \* the Function under construction: its fields, _info keyed by id(instr)
    fun_exc,        \* exception raised by the constructor ("none" when it returned)
    fun_call,       \* the arguments of the constructor call made
    instr_call,     \* the pointer-assignment instruction constructed, and its outcome
    query,          \* the last info_at call: its pc and the InstructionInfo returned
    \* Lowering of a function body (parser/_internal/cparser/FuncDefVisitor.py)
    cond_counter,   \* FuncDefVisitor.cond_counter
    lowered,        \* the instructions the body has yielded so far
    visited,        \* history: the statement of the body visited last, where its instructions start
    low_exc,        \* exception raised by the visit ("none" while it runs)
    cfg,            \* the table of infos the Function constructor builds for the body
    n_stmts,        \* the number of statements of the body visited
    \* Lowering of one statement or expression (FuncDefVisitor.py, ExprVisitor.py)
    visit_call,     \* the last visit of a C node: the node, the visitor's state, the outcome
    \* Lowering of a file (parser/_internal/cparser/FileVisitor.py)
    file_call,      \* the file visited, the tables of the visitor, the exception raised
    \* Enviroment (ir/enviroment.py)
    env_call,       \* the last Enviroment(...) call: its arguments, its outcome, env.vars
    \* Declarations in the blocks of a function body (FuncDefVisitor.py)
    block           \* the blocks of the body that are open, what each declares, the last visit

scopeVars == <<stack, vars_counters, vars, decl_log, got, scope_exc>>

sortVars == <<pool, const_pool, made, sort_exc, struct_call>>

exprVars == <<built, expr_call, expr_exc, op_call>>

funVars == <<function, fun_exc, fun_call, instr_call, query>>

lowerVars == <<cond_counter, lowered, visited, low_exc, cfg, n_stmts>>

visitVars == <<visit_call>>

unitVars == <<file_call, env_call, block>>

allVars == <<scopeVars, sortVars, exprVars, funVars, lowerVars, visitVars, unitVars>>

-----------------------------------------------------------------------------
(* Bounds *)

MaxScopeDepth == 3
MaxDecl == 3
MaxMade == 3
MaxBuilt == 3
MaxLen == 3
MaxStmts == 2
MaxNest == 2

-----------------------------------------------------------------------------
(* The sorts the modules create when they are imported, named by their     *)
(* position in the interning pool: a sort is compared by identity.         *)

INT == 1
REAL == 2
UNIT == 3
BOOL == 4
\* the node struct of a function's environment and the sort of pointers to it
NODE == 5
PTR_NODE == 6
\* the struct of the expression tests, the pointer to it, and Pointer(INT)
BIRFC == 7
PTR_BIRFC == 8
PTR_INT == 9

is_ptr(sort) == sort \in {PTR_NODE, PTR_BIRFC, PTR_INT}

\* Pointer.pointee
pointee_of == [sort \in {PTR_NODE, PTR_BIRFC, PTR_INT} |->
               CASE sort = PTR_NODE -> NODE [] sort = PTR_BIRFC -> BIRFC [] OTHER -> INT]

\* Struct.fields of the two structs: the sort of the Var under each field name
struct_fields ==
    [struct \in {NODE, BIRFC} |->
        IF struct = NODE
        THEN [name \in {"left", "right", "value"} |-> IF name = "value" THEN INT ELSE PTR_NODE]
        ELSE [name \in {"f", "i", "r", "b", "c"} |->
                CASE name = "f" -> PTR_INT [] name = "i" -> INT [] name = "r" -> REAL
                  [] name = "b" -> BOOL [] OTHER -> PTR_BIRFC]]

-----------------------------------------------------------------------------
(* Helpers *)

Max(S) == CHOOSE m \in S : \A x \in S : x <= m

Range(s) == {s[i] : i \in 1..Len(s)}

Last(s) == s[Len(s)]

Front(s) == SubSeq(s, 1, Len(s) - 1)

\* str(n) for a non-negative int, as a sequence of characters
DigitChar(d) == <<"0", "1", "2", "3", "4", "5", "6", "7", "8", "9">>[d + 1]

RECURSIVE IntToStr(_)
IntToStr(n) == IF n < 10 THEN <<DigitChar(n)>> ELSE IntToStr(n \div 10) \o <<DigitChar(n % 10)>>

-----------------------------------------------------------------------------
(* ScopeStack *)

\* Base names the parser may declare; strings are sequences of characters so
\* that the mangling f"{name}_{n}" is modelled as the concatenation it is.
Names == {<<"x">>, <<"x", "_", "0">>}

\* Sorts handed to declare_variable; Var only asks is_unit() of them.
ScopeSorts == {INT, REAL, UNIT}

NoVar == [name |-> <<>>, sort |-> 0]

EmptyFrame == [n \in {} |-> NoVar]

\* f"{name}_{self.vars_counters[name]}"
Mangle(name, n) == name \o <<"_">> \o IntToStr(n)

\* Var.__post_init__: a Var of sort Unit is rejected
VarRaises(sort) == sort = UNIT

\* mutant of Lookup: outermost frame first
LookupOutermost(stk, name) ==
    LET idxs == {i \in 1..Len(stk) : name \in DOMAIN stk[i]}
    IN  IF idxs = {} THEN NoVar ELSE stk[CHOOSE i \in idxs : \A j \in idxs : i <= j][name]

\* get_variable: for scope in reversed(self.stack): if name in scope: return scope[name]
RECURSIVE Lookup(_, _)
Lookup(stk, name) ==
    IF Len(stk) = 0 THEN NoVar
    ELSE IF name \in DOMAIN Last(stk) THEN Last(stk)[name]
    ELSE Lookup(Front(stk), name)

ScopeInit ==
    /\ stack = <<>>
    /\ vars_counters = [n \in Names |-> 0]
    /\ vars = {}
    /\ decl_log = <<>>
    /\ got = [name |-> <<>>, raised |-> FALSE, var |-> NoVar]
    /\ scope_exc = "none"

NoGet == [name |-> <<>>, raised |-> FALSE, var |-> NoVar]

push_scope ==
    /\ Len(stack) < MaxScopeDepth
    /\ stack' = Append(stack, EmptyFrame)
    /\ got' = NoGet
    /\ scope_exc' = "none"
    /\ UNCHANGED <<vars_counters, vars, decl_log>>

\* mutant of pop_scope: the counters restart when a frame is closed
pop_scope_resets_counters ==
    /\ got' = NoGet
    /\ IF Len(stack) = 0
       THEN /\ scope_exc' = "RuntimeError"
            /\ UNCHANGED <<stack, vars_counters>>
       ELSE /\ stack' = Front(stack)
            /\ vars_counters' = [n \in Names |-> 0]
            /\ scope_exc' = "none"
    /\ UNCHANGED <<vars, decl_log>>

pop_scope ==
    /\ got' = NoGet
    /\ IF Len(stack) = 0
       THEN /\ scope_exc' = "RuntimeError"
            /\ UNCHANGED stack
       ELSE /\ stack' = Front(stack)
            /\ scope_exc' = "none"
    /\ UNCHANGED <<vars_counters, vars, decl_log>>

get_variable(name) ==
    /\ got' = [name |-> name,
               raised |-> Lookup(stack, name) = NoVar,
               var |-> Lookup(stack, name)]
    /\ scope_exc' = IF Lookup(stack, name) = NoVar THEN "KeyError" ELSE "none"
    /\ UNCHANGED <<stack, vars_counters, vars, decl_log>>

\* A declare_variable that takes the index before it looks at the frame
declare_variable_counts_first(name, sort) ==
    /\ Len(decl_log) < MaxDecl
    /\ got' = NoGet
    /\ IF Len(stack) = 0
       THEN /\ scope_exc' = "AssertionError"
            /\ UNCHANGED <<stack, vars_counters, vars, decl_log>>
       ELSE /\ vars_counters' = [vars_counters EXCEPT ![name] = @ + 1]
            /\ IF name \in DOMAIN Last(stack)
               THEN /\ scope_exc' = "KeyError"
                    /\ UNCHANGED <<stack, vars, decl_log>>
               ELSE LET var == [name |-> Mangle(name, vars_counters[name]), sort |-> sort]
                        current_scope == Last(stack)
                    IN  IF VarRaises(sort)
                        THEN /\ scope_exc' = "ValueError"
                             /\ decl_log' = Append(decl_log, [base |-> name, ok |-> FALSE, var |-> NoVar])
                             /\ UNCHANGED <<stack, vars>>
                        ELSE /\ scope_exc' = "none"
                             /\ stack' = [stack EXCEPT ![Len(stack)] =
                                             [n \in DOMAIN current_scope \cup {name} |->
                                                 IF n = name THEN var ELSE current_scope[n]]]
                             /\ vars' = vars \cup {var}
                             /\ decl_log' = Append(decl_log, [base |-> name, ok |-> TRUE, var |-> var])

declare_variable(name, sort) ==
    /\ Len(decl_log) < MaxDecl
    /\ got' = NoGet
    /\ IF Len(stack) = 0
       THEN /\ scope_exc' = "AssertionError"
            /\ UNCHANGED <<stack, vars_counters, vars, decl_log>>
       ELSE IF name \in DOMAIN Last(stack)
       THEN /\ scope_exc' = "KeyError"
            /\ UNCHANGED <<stack, vars_counters, vars, decl_log>>
       ELSE LET var == [name |-> Mangle(name, vars_counters[name]), sort |-> sort]
                current_scope == Last(stack)
            IN  /\ vars_counters' = [vars_counters EXCEPT ![name] = @ + 1]
                /\ IF VarRaises(sort)
                   THEN /\ scope_exc' = "ValueError"
                        /\ decl_log' = Append(decl_log, [base |-> name, ok |-> FALSE, var |-> NoVar])
                        /\ UNCHANGED <<stack, vars>>
                   ELSE /\ scope_exc' = "none"
                        /\ stack' = [stack EXCEPT ![Len(stack)] =
                                        [n \in DOMAIN current_scope \cup {name} |->
                                            IF n = name THEN var ELSE current_scope[n]]]
                        /\ vars' = vars \cup {var}
                        /\ decl_log' = Append(decl_log, [base |-> name, ok |-> TRUE, var |-> var])

\* clear() returns the object to its constructed state: a new life of the stack
clear ==
    /\ stack # <<>> \/ vars # {} \/ decl_log # <<>>
    /\ stack' = <<>>
    /\ vars_counters' = [n \in Names |-> 0]
    /\ vars' = {}
    /\ decl_log' = <<>>
    /\ got' = NoGet
    /\ scope_exc' = "none"

-----------------------------------------------------------------------------
(* ScopeStack: properties *)

SuccessfulBefore(i, base) ==
    {j \in 1..(i - 1) : decl_log[j].ok /\ decl_log[j].base = base}

CheckedBefore(i, base) ==
    {j \in 1..(i - 1) : decl_log[j].base = base}

DistinctVarNames ==
    /\ vars = {decl_log[i].var : i \in {j \in 1..Len(decl_log) : decl_log[j].ok}}
    /\ \A v, w \in vars : v.name = w.name => v = w
    /\ \A i, j \in 1..Len(decl_log) :
          (i < j /\ decl_log[i].ok /\ decl_log[j].ok) => decl_log[i].var.name # decl_log[j].var.name

\* C6 as stated: the k-th successful declare_variable of a base name
\* (counting from 0, over all frames, popped ones included) creates the Var
\* named name_k, and all Vars of the declared set have distinct names.
C6_KthSuccessfulIsNameK ==
    /\ \A i \in 1..Len(decl_log) :
          decl_log[i].ok =>
            decl_log[i].var.name =
                Mangle(decl_log[i].base, Cardinality(SuccessfulBefore(i, decl_log[i].base)))
    /\ DistinctVarNames

\* C6 amended: a successful declare_variable of a base name creates the Var
\* named name_j, j being the number of earlier declare_variable calls for
\* that name that passed the same-frame redeclaration check (the successful
\* ones and the ones Var rejected for a Unit sort); indices are never reused
\* after pop_scope and all Vars of the declared set, which keeps the Vars of
\* popped frames, have pairwise distinct names.
C6_IndexCountsCheckedDeclarations ==
    /\ \A i \in 1..Len(decl_log) :
          decl_log[i].ok =>
            decl_log[i].var.name =
                Mangle(decl_log[i].base, Cardinality(CheckedBefore(i, decl_log[i].base)))
    /\ DistinctVarNames

BoundInOpenFrame(v) ==
    \E i \in 1..Len(stack) : \E n \in DOMAIN stack[i] : stack[i][n] = v

\* C6 witness: x_0 was declared in a frame since popped, and x declared
\* again in a later frame is x_1.
C6_Witness ==
    /\ \E v \in vars : v.name = Mangle(<<"x">>, 0) /\ ~BoundInOpenFrame(v)
    /\ Lookup(stack, <<"x">>).name = Mangle(<<"x">>, 1)

DeclaringFrames(name) == {i \in 1..Len(stack) : name \in DOMAIN stack[i]}

\* C7: get_variable(name) returns the Var declared for name in the
\* innermost open frame that declares it, and raises when no open frame
\* declares it; a name declared in two open frames is bound to two
\* different Vars.
C7_GetVariableInnermostFirst ==
    /\ got.name # <<>> =>
          IF DeclaringFrames(got.name) = {}
          THEN got.raised /\ scope_exc = "KeyError"
          ELSE /\ ~got.raised
               /\ scope_exc = "none"
               /\ got.var = stack[Max(DeclaringFrames(got.name))][got.name]
    /\ \A n \in Names : \A i, j \in DeclaringFrames(n) : i # j => stack[i][n] # stack[j][n]

\* C7 witness: x was declared in an outer frame (x_0), shadowed in an inner
\* frame (x_1) that has been popped, and get_variable("x") returns x_0 again.
C7_Witness ==
    /\ got.name = <<"x">>
    /\ got.var.name = Mangle(<<"x">>, 0)
    /\ \E v \in vars : v.name = Mangle(<<"x">>, 1) /\ ~BoundInOpenFrame(v)
    /\ Len(decl_log) = 2

\* C30: a declare_variable call for a name the innermost frame declares
\* raises KeyError and leaves the stack, the counters and the set of
\* declared Vars as they were, so the name is still bound to the earlier Var
\* and the next declaration of the name takes the index the failed call did
\* not take; pop_scope on an empty stack raises RuntimeError and changes
\* nothing either.
C30_FailedCallsChangeNothing ==
    [][(\/ scope_exc' = "KeyError" /\ got' = NoGet
        \/ scope_exc' = "RuntimeError")
            => UNCHANGED <<stack, vars_counters, vars>>]_allVars

\* C30 witness: x is declared in the innermost of two frames as x_1, a
\* second declaration of x there has just failed, and the counter of x is
\* still 2.
C30_Witness ==
    /\ scope_exc = "KeyError" /\ got = NoGet
    /\ Len(stack) = 2
    /\ <<"x">> \in DOMAIN Last(stack)
    /\ Last(stack)[<<"x">>].name = Mangle(<<"x">>, 1)
    /\ vars_counters[<<"x">>] = 2

\* pop_scope has just failed on the empty stack of a ScopeStack that has
\* declared a Var
C30_WitnessPop ==
    /\ scope_exc = "RuntimeError"
    /\ stack = <<>>
    /\ vars # {}

-----------------------------------------------------------------------------
(* Sort registry *)

\* A string is a sequence of tokens, so that str() and the f-strings that
\* build a Pointer's name are the concatenations they are.
NoFlags == <<>>

NoFields == [n \in {} |-> NoVar]

\* An instance holds the dataclass fields of its class; the fields a class
\* does not have keep their empty value.
Instance(cls, name, flags, ptrs, svars, pointee) ==
    [cls |-> cls, name |-> name, flags |-> flags, _struct_ptrs |-> ptrs,
     _struct_vars |-> svars, _pointee_id |-> pointee]

\* Int.__init__ / Real.__init__ / Unit.__init__
NewInt == Instance("Int", <<"int">>, NoFlags, {}, NoFields, 0)

NewReal == Instance("Real", <<"real">>, NoFlags, {}, NoFields, 0)

NewUnit == Instance("Unit", <<"unit">>, NoFlags, {}, NoFields, 0)

\* Enum.__init__: flags is a dict given in some insertion order
NewEnum(name, flags) == Instance("Enum", name, flags, {}, NoFields, 0)

\* BOOL = Enum("bool", {"FALSE": 0, "TRUE": 1})
BoolFlags == << <<"FALSE", 0>>, <<"TRUE", 1>> >>

ImportedPool == <<NewInt, NewReal, NewUnit, NewEnum(<<"bool">>, BoolFlags)>>

\* frozendict equality: the same keys with the same values, in any order
FlagMap(flags) == {flags[i] : i \in 1..Len(flags)}

RECURSIVE JoinFlags(_)
JoinFlags(flags) ==
    IF Len(flags) = 0 THEN <<>>
    ELSE <<flags[1][1], " = ">> \o IntToStr(flags[1][2])
         \o (IF Len(flags) > 1 THEN <<", ">> ELSE <<>>) \o JoinFlags(Tail(flags))

\* Sort.__str__ (the name), overridden by Enum.__str__
Str(inst) ==
    IF inst.cls = "Enum" THEN inst.name \o <<"[">> \o JoinFlags(inst.flags) \o <<"]">>
    ELSE inst.name

\* Pointer.__init__: the name is built from str(pointee) as it is now
NewPointer(p, pointee) ==
    Instance("Pointer", <<"pointer[">> \o Str(p[pointee]) \o <<"]">>, NoFlags, {}, NoFields, pointee)

\* A check of the pointer fields alone
StructRaisesNoPointerOnly(struct_ptrs, struct_vars) == Len(struct_ptrs) = 0

\* Struct.__init__ raises when there is no pointer field or a field name repeats
StructRaises(struct_ptrs, struct_vars) ==
    \/ Len(struct_ptrs) = 0
    \/ Cardinality({struct_vars[i].name : i \in 1..Len(struct_vars)} \cup Range(struct_ptrs))
         # Len(struct_ptrs) + Len(struct_vars)

NewStruct(name, struct_ptrs, struct_vars) ==
    Instance("Struct", name, NoFlags, Range(struct_ptrs),
             [n \in {struct_vars[i].name : i \in 1..Len(struct_vars)} |->
                 CHOOSE v \in Range(struct_vars) : v.name = n],
             0)

\* mutant of SortEq: the flags compared as the tuple they were given as
SortEqOrdered(a, b) ==
    /\ a.cls = b.cls
    /\ a.name = b.name
    /\ a.flags = b.flags
    /\ a._struct_ptrs = b._struct_ptrs
    /\ a._struct_vars = b._struct_vars
    /\ a._pointee_id = b._pointee_id

\* The dataclass __eq__ of the sort classes: the same class and equal compared
\* fields (Pointer.pointee has compare=False; _pointee_id stands for it)
SortEq(a, b) ==
    /\ a.cls = b.cls
    /\ a.name = b.name
    /\ FlagMap(a.flags) = FlagMap(b.flags)
    /\ a._struct_ptrs = b._struct_ptrs
    /\ a._struct_vars = b._struct_vars
    /\ a._pointee_id = b._pointee_id

PoolIndex(p, instance) == CHOOSE i \in 1..Len(p) : SortEq(p[i], instance)

\* Sort.__new__ followed by the __init__ that type.__call__ runs on what
\* __new__ returned: the pooled instance is returned, its fields assigned
\* again from the arguments of this call.
Interned(p, instance) ==
    IF \E i \in 1..Len(p) : SortEq(p[i], instance)
    THEN [pool |-> [p EXCEPT ![PoolIndex(p, instance)] = instance], inst |-> PoolIndex(p, instance)]
    ELSE [pool |-> Append(p, instance), inst |-> Len(p) + 1]

Construction(kind, name, flags, ptrs, svars, pointee, value, inst) ==
    [kind |-> kind, name |-> name, flags |-> flags, ptrs |-> ptrs, svars |-> svars,
     pointee |-> pointee, value |-> value, inst |-> inst]

StructCall(op, struct_ptrs, struct_vars, exc, inst, res) ==
    [op |-> op, struct_ptrs |-> struct_ptrs, struct_vars |-> struct_vars,
     exc |-> exc, inst |-> inst, res |-> res]
NoStructCall == StructCall("", <<>>, <<>>, "none", 0, NoFields)

SortInit ==
    /\ pool = ImportedPool
    /\ const_pool = << [sort |-> BOOL, value |-> "TRUE"], [sort |-> BOOL, value |-> "FALSE"] >>
    /\ made = {}
    /\ sort_exc = "none"
    /\ struct_call = NoStructCall

Returned(r, c) ==
    /\ pool' = r.pool
    /\ made' = made \cup {c}
    /\ sort_exc' = "none"
    /\ UNCHANGED const_pool

MakeNative(cls) ==
    /\ Cardinality(made) < MaxMade
    /\ LET instance == CASE cls = "Int" -> NewInt [] cls = "Real" -> NewReal [] OTHER -> NewUnit
           r == Interned(pool, instance)
       IN  Returned(r, Construction(cls, instance.name, NoFlags, <<>>, <<>>, 0, "", r.inst))
    /\ UNCHANGED struct_call

MakeEnum(name, flags) ==
    /\ Cardinality(made) < MaxMade
    /\ LET r == Interned(pool, NewEnum(name, flags))
       IN  Returned(r, Construction("Enum", name, flags, <<>>, <<>>, 0, "", r.inst))
    /\ UNCHANGED struct_call

MakeStruct(name, struct_ptrs, struct_vars) ==
    /\ Cardinality(made) < MaxMade
    /\ IF StructRaises(struct_ptrs, struct_vars)
       THEN /\ sort_exc' = "ValueError"
            /\ struct_call' = StructCall("Struct", struct_ptrs, struct_vars, "ValueError", 0, NoFields)
            /\ UNCHANGED <<pool, const_pool, made>>
       ELSE LET r == Interned(pool, NewStruct(name, struct_ptrs, struct_vars))
            IN  /\ Returned(r, Construction("Struct", name, NoFlags, struct_ptrs, struct_vars, 0, "", r.inst))
                /\ struct_call' = StructCall("Struct", struct_ptrs, struct_vars, "none", r.inst, NoFields)

\* Struct.fields, read on the pooled Struct instance self: a Var of sort
\* Pointer(self) under each pointer name, then the data Vars under theirs.
\* Pointer(self) goes through the pool.
fields(self) ==
    /\ pool[self].cls = "Struct"
    /\ LET r == Interned(pool, NewPointer(pool, self))
           all_fields == [name \in pool[self]._struct_ptrs |-> [name |-> name, sort |-> r.inst]]
           updated == [name \in DOMAIN all_fields \cup DOMAIN pool[self]._struct_vars |->
                          IF name \in DOMAIN pool[self]._struct_vars
                          THEN pool[self]._struct_vars[name]
                          ELSE all_fields[name]]
       IN  /\ pool' = r.pool
           /\ struct_call' = StructCall("fields", <<>>, <<>>, "none", self, updated)
    /\ sort_exc' = "none"
    /\ UNCHANGED <<const_pool, made>>

MakePointer(pointee) ==
    /\ Cardinality(made) < MaxMade
    /\ LET r == Interned(pool, NewPointer(pool, pointee))
       IN  Returned(r, Construction("Pointer", <<>>, NoFlags, <<>>, <<>>, pointee, "", r.inst))
    /\ UNCHANGED struct_call

\* EnumConst.__new__: __post_init__ rejects a value that is no flag of the sort
MakeEnumConst(sort, value) ==
    /\ Cardinality(made) < MaxMade
    /\ pool[sort].cls = "Enum"
    /\ IF ~\E i \in 1..Len(pool[sort].flags) : pool[sort].flags[i][1] = value
       THEN /\ sort_exc' = "ValueError"
            /\ UNCHANGED <<pool, const_pool, made>>
       ELSE LET c == [sort |-> sort, value |-> value]
                found == \E i \in 1..Len(const_pool) : const_pool[i] = c
                inst == IF found THEN CHOOSE i \in 1..Len(const_pool) : const_pool[i] = c
                        ELSE Len(const_pool) + 1
            IN  /\ const_pool' = IF found THEN const_pool ELSE Append(const_pool, c)
                /\ made' = made \cup {Construction("EnumConst", <<>>, NoFlags, <<>>, <<>>, sort, value, inst)}
                /\ sort_exc' = "none"
                /\ UNCHANGED pool
    /\ UNCHANGED struct_call

\* The arguments tried
EnumArgs ==
    { <<<<"bool">>, << <<"TRUE", 1>>, <<"FALSE", 0>> >> >>,
      <<<<"bool">>, << <<"TRUE", 0>>, <<"FALSE", 1>> >> >>,
      <<<<"Node">>, << <<"TRUE", 1>>, <<"FALSE", 0>> >> >>,
      <<<<"Node">>, << <<"FALSE", 0>>, <<"TRUE", 1>> >> >>,
      <<<<"Node">>, <<>> >> }

StructArgs ==
    { <<<<"Node">>, <<"next">>, << [name |-> "value", sort |-> INT] >> >>,
      <<<<"Node">>, <<"next">>, << [name |-> "value", sort |-> REAL] >> >>,
      <<<<"Node">>, <<"left", "right">>, << [name |-> "value", sort |-> REAL] >> >>,
      <<<<"Node">>, <<"right", "left">>, << [name |-> "value", sort |-> REAL] >> >>,
      <<<<"List">>, <<"next">>, << [name |-> "value", sort |-> INT] >> >>,
      <<<<"List">>, <<>>, << [name |-> "value", sort |-> INT] >> >>,
      <<<<"List">>, <<"next">>, << [name |-> "next", sort |-> INT] >> >>,
      <<<<"List">>, <<"next">>, << [name |-> "value", sort |-> INT], [name |-> "value", sort |-> BOOL] >> >>,
      <<<<"List">>, <<"next", "next">>, <<>> >> }

-----------------------------------------------------------------------------
(* Sort registry: properties *)

SortKinds == {"Int", "Real", "Unit", "Enum", "Struct"}

\* Equal payloads, as the registry's contract counts them: the name, the
\* flag-to-code map whatever the order of the flags, the sets of fields
SamePayload(c, d) ==
    /\ c.kind = d.kind
    /\ c.name = d.name
    /\ \A i \in 1..Len(c.flags) : \E j \in 1..Len(d.flags) : c.flags[i] = d.flags[j]
    /\ \A j \in 1..Len(d.flags) : \E i \in 1..Len(c.flags) : c.flags[i] = d.flags[j]
    /\ {c.ptrs[i] : i \in 1..Len(c.ptrs)} = {d.ptrs[i] : i \in 1..Len(d.ptrs)}
    /\ {c.svars[i] : i \in 1..Len(c.svars)} = {d.svars[i] : i \in 1..Len(d.svars)}

\* C3: two constructions of Int, Real, Unit, Enum or Struct return the same
\* instance iff they are of the same kind with equal payloads (the flags of
\* an Enum in any order); two EnumConst constructions return the same
\* instance iff their sort and their value are the same.
C3_InternedIffEqualPayload ==
    \A c, d \in made :
        /\ (c.kind \in SortKinds /\ d.kind \in SortKinds) =>
              (c.inst = d.inst <=> SamePayload(c, d))
        /\ (c.kind = "EnumConst" /\ d.kind = "EnumConst") =>
              (c.inst = d.inst <=> (c.pointee = d.pointee /\ c.value = d.value))

\* C3 witness: an Enum was built twice with its flags in two orders and is
\* one instance, while a third construction of that name with other flags
\* is another instance.
C3_Witness ==
    \E c, d, e \in made :
        /\ c.kind = "Enum" /\ d.kind = "Enum" /\ e.kind = "Enum"
        /\ c.flags # d.flags /\ c.inst = d.inst
        /\ e.name = c.name /\ e.inst # c.inst

\* C4: Pointer(S) built twice from one sort instance S is one instance, and
\* Pointer(S1), Pointer(S2) of two instances S1, S2 are two instances.
C4_PointerInternedByPointee ==
    \A c, d \in made :
        (c.kind = "Pointer" /\ d.kind = "Pointer") =>
            (c.inst = d.inst <=> c.pointee = d.pointee)

\* The field names of a Struct(...) call as given, pointer names first
GivenNames(call) ==
    call.struct_ptrs \o [i \in 1..Len(call.struct_vars) |-> call.struct_vars[i].name]

\* C15: Struct(...) raises ValueError and yields no sort when no pointer
\* field is given or when two of the given fields (data or pointer) have one
\* name, and only then; the field map read from a constructed struct has
\* exactly the data-field and pointer-field names, each data field's own Var,
\* and under each pointer name a Var of that name whose sort is the pooled
\* Pointer to this struct.
C15_StructValidationAndFields ==
    /\ struct_call.op = "Struct" =>
          LET names == GivenNames(struct_call)
              bad == \/ struct_call.struct_ptrs = <<>>
                     \/ \E i, j \in 1..Len(names) : i < j /\ names[i] = names[j]
          IN  IF bad
              THEN struct_call.exc = "ValueError" /\ struct_call.inst = 0
              ELSE /\ struct_call.exc = "none"
                   /\ struct_call.inst \in 1..Len(pool)
                   /\ pool[struct_call.inst].cls = "Struct"
    /\ struct_call.op = "fields" =>
          LET self == pool[struct_call.inst]
              res == struct_call.res
          IN  /\ DOMAIN res = self._struct_ptrs \cup DOMAIN self._struct_vars
              /\ \A n \in DOMAIN self._struct_vars : res[n] = self._struct_vars[n]
              /\ \A n \in self._struct_ptrs :
                    /\ res[n].name = n
                    /\ pool[res[n].sort].cls = "Pointer"
                    /\ pool[res[n].sort]._pointee_id = struct_call.inst

\* Two data fields named value beside a pointer field: the call raised
C15_Witness ==
    /\ struct_call.op = "Struct"
    /\ Len(struct_call.struct_vars) = 2
    /\ struct_call.struct_vars[1].name = struct_call.struct_vars[2].name
    /\ struct_call.exc = "ValueError"
    /\ struct_call.inst = 0

\* The field map of a struct with two pointer fields and a data field
C15_WitnessFields ==
    /\ struct_call.op = "fields"
    /\ DOMAIN struct_call.res = {"left", "right", "value"}
    /\ struct_call.res["value"].sort = REAL

-----------------------------------------------------------------------------
(* Expressions (ir/expressions.py) *)

\* An expression: a leaf (Var, Field, int, float) carries its name or its
\* value and its sort, an operator node carries its operands.
Leaf(op, name, sort) == [op |-> op, args |-> <<>>, name |-> name, sort |-> sort]
Node(op, args) == [op |-> op, args |-> args, name |-> "", sort |-> 0]
NoExpr == [op |-> "", args |-> <<>>, name |-> "", sort |-> 0]
\* Field(ptr, name): the field name of what the pointer Var ptr points to
Field(ptr, name) == [op |-> "Field", args |-> <<ptr>>, name |-> name, sort |-> 0]

\* The leaves the operators are built over: Vars a, b : int and x : bool
Leaves == {Leaf("Var", "a", INT), Leaf("Var", "b", INT), Leaf("Var", "x", BOOL)}

\* The operands of the expression tests: Vars p, i, r, b, the fields of p of
\* sort int, bool and pointer, an int and a float literal, the constant TRUE
p_var == Leaf("Var", "p", PTR_BIRFC)
\* The Vars and the Fields of the instruction tests: q points to an int, p.f
\* is a pointer to an int, p.c a pointer to the struct
PtrTestVars == {p_var, Leaf("Var", "p2", PTR_BIRFC), Leaf("Var", "q", PTR_INT), Leaf("Var", "i", INT)}
PtrTestFields == {Field(p_var, "f"), Field(p_var, "c"), Field(p_var, "i")}
OpLeaves ==
    { p_var, Leaf("Var", "i", INT), Leaf("Var", "r", REAL), Leaf("Var", "b", BOOL),
      Field(p_var, "i"), Field(p_var, "b"), Field(p_var, "c"),
      Leaf("int", "1", INT), Leaf("float", "1.5", REAL), Leaf("EnumConst", "TRUE", BOOL) }

AssociativeOps == {"And", "Or", "Add", "Mul"}
BinaryOps == {"Sub"}
UnaryOperators == {"Not", "Negate", "PtrIsNil"}
BinaryOperators ==
    {"And", "Or", "Eq", "Ne", "Lt", "Le", "Gt", "Ge", "Add", "Sub", "Mul", "Div", "Mod", "PtrIsPtr"}
BoolOps == {"PtrIsNil", "PtrIsPtr", "Eq", "Ne", "Lt", "Le", "Ge", "Gt", "And", "Or", "Not"}

\* A sort_of that gives every operator the sort of its first operand
RECURSIVE sort_of_first_operand(_)
sort_of_first_operand(expr) ==
    CASE expr.op \in {"Var", "EnumConst"} -> expr.sort
      [] expr.op = "int" -> INT
      [] expr.op = "float" -> REAL
      [] OTHER -> sort_of_first_operand(expr.args[1])

RECURSIVE sort_of(_)
sort_of(expr) ==
    CASE expr.op \in {"Var", "EnumConst"} -> expr.sort
      [] expr.op = "Field" -> struct_fields[pointee_of[expr.args[1].sort]][expr.name]
      [] expr.op = "int" -> INT
      [] expr.op = "float" -> REAL
      [] expr.op \in BoolOps -> BOOL
      [] OTHER -> sort_of(expr.args[1])

\* mutant of flat_expr: the arguments as given, none flattened
flat_expr_as_given(op, given) == given

\* _AssociativeOperator.__init__: every argument that is a node of the
\* operator being built is replaced by its operands
RECURSIVE flat_expr(_, _)
flat_expr(op, given) ==
    IF given = <<>> THEN <<>>
    ELSE (IF Head(given).op = op THEN Head(given).args ELSE <<Head(given)>>)
            \o flat_expr(op, Tail(given))

_bound_args_sort(allowed_sorts, args) ==
    \A i \in 1..Len(args) : sort_of(args[i]) \in allowed_sorts

\* A check that lets operands of different sorts through
_all_args_any_sort(args) == TRUE

_all_args_same_sort(args) ==
    \A i \in 2..Len(args) : sort_of(args[i]) = sort_of(args[1])

_arithmetic(args) == _bound_args_sort({INT, REAL}, args) /\ _all_args_same_sort(args)

_boolean(args) == _bound_args_sort({BOOL}, args) /\ _all_args_same_sort(args)

\* A check that lets Fields through
_no_fields_off(args) == TRUE

RECURSIVE _no_fields(_)
_no_fields(args) ==
    \A i \in 1..Len(args) :
        /\ args[i].op # "Field"
        /\ args[i].op \notin {"Var", "Field", "int", "float"} => _no_fields(args[i].args)

_only_pointers(args) ==
    /\ \A i \in 1..Len(args) : is_ptr(sort_of(args[i]))
    /\ _all_args_same_sort(args)

_no_pointers(args) ==
    /\ \A i \in 1..Len(args) : ~is_ptr(sort_of(args[i]))
    /\ _all_args_same_sort(args)

\* The validators of an operator class, run on the operands after __init__
\* (for PtrIsNil and PtrIsPtr after the class's own __post_init__)
Validates(op, args) ==
    CASE op \in {"And", "Or", "Not"} -> _boolean(args) /\ _no_fields(args)
      [] op \in {"Eq", "Ne"} -> _no_pointers(args) /\ _no_fields(args)
      [] op = "Mod" -> _bound_args_sort({INT}, args) /\ _no_fields(args)
      [] op \in {"PtrIsNil", "PtrIsPtr"} ->
            /\ \A i \in 1..Len(args) : args[i].op = "Var"
            /\ _only_pointers(args)
      [] OTHER -> _arithmetic(args) /\ _all_args_same_sort(args) /\ _no_fields(args)

NoCall == [op |-> "", given |-> <<>>, res |-> NoExpr]
\* No instruction constructed yet (ir/instructions.py)
NoInstrCall == [cls |-> "", left |-> NoExpr, right |-> NoExpr, exc |-> "none"]
NoOpCall ==
    [op |-> "", given |-> <<>>, exc |-> "none", res |-> NoExpr, depth |-> 0,
     asked |-> NoExpr, sorts |-> <<>>]

ExprInit ==
    /\ built = {}
    /\ expr_call = NoCall
    /\ expr_exc = "none"
    /\ op_call = NoOpCall

\* Every expression a constructor can be handed
Operands == Leaves \cup built

Constructed(op, given, args) ==
    /\ IF Validates(op, args)
       THEN /\ built' = built \cup {Node(op, args)}
            /\ expr_call' = [op |-> op, given |-> given, res |-> Node(op, args)]
            /\ expr_exc' = "none"
       ELSE /\ expr_exc' = "ValueError"
            /\ expr_call' = NoCall
            /\ UNCHANGED built
    /\ UNCHANGED op_call

\* And(...), Or(...), Add(...), Mul(...): two operands or more
MakeAssociative(op, given) ==
    /\ Cardinality(built) < MaxBuilt
    /\ Constructed(op, given, flat_expr(op, given))

\* Sub(left, right)
MakeBinary(op, left, right) ==
    /\ Cardinality(built) < MaxBuilt
    /\ Constructed(op, <<left, right>>, <<left, right>>)

\* Every expression an operator of the second run can be handed: a leaf, or
\* the node the last construction returned
OpOperands == OpLeaves \cup (IF op_call.res = NoExpr THEN {} ELSE {op_call.res})

\* An operator class called on its arguments; depth counts the constructions
\* nested in the result.  A behaviour builds one expression from the inside
\* out: the first call is on leaves, each later call has the node returned
\* last among its arguments.
Operator(op, given) ==
    LET args == IF op \in AssociativeOps THEN flat_expr(op, given) ELSE given
        depth == op_call.depth + 1
    IN  /\ depth <= MaxNest
        /\ instr_call = NoInstrCall
        /\ \/ op_call = NoOpCall
           \/ op_call.res # NoExpr /\ \E i \in 1..Len(given) : given[i] = op_call.res
        /\ op_call' = IF Validates(op, args)
                       THEN [op |-> op, given |-> given, exc |-> "none",
                             res |-> Node(op, args), depth |-> depth,
                             asked |-> NoExpr, sorts |-> <<>>]
                       ELSE [op |-> op, given |-> given, exc |-> "ValueError",
                             res |-> NoExpr, depth |-> 0,
                             asked |-> NoExpr, sorts |-> <<>>]
        /\ UNCHANGED <<built, expr_call, expr_exc>>

\* sort_of(expr), called once and once again on the same expression, a leaf
\* or the node just constructed: the sorts returned are kept in
\* op_call.sorts; the function assigns nothing
call_sort_of(expr) ==
    /\ Len(op_call.sorts) < 2
    /\ instr_call = NoInstrCall
    /\ op_call.sorts = <<>> \/ expr = op_call.asked
    /\ IF op_call.op = "" THEN expr \in OpLeaves ELSE expr = op_call.res
    /\ op_call' = [op_call EXCEPT !.asked = expr, !.sorts = Append(@, sort_of(expr))]
    /\ UNCHANGED <<built, expr_call, expr_exc>>

-----------------------------------------------------------------------------
(* Expressions: properties *)

\* The operands of an expression with every nest of the operator op opened
RECURSIVE Opened(_, _)
Opened(op, expr) ==
    IF expr.op # op THEN <<expr>>
    ELSE LET RECURSIVE Cat(_)
             Cat(i) == IF i > Len(expr.args) THEN <<>>
                       ELSE Opened(op, expr.args[i]) \o Cat(i + 1)
         IN  Cat(1)

RECURSIVE OpenedAll(_, _)
OpenedAll(op, given) ==
    IF given = <<>> THEN <<>> ELSE Opened(op, Head(given)) \o OpenedAll(op, Tail(given))

\* C5: the operands of a constructed associative node are its arguments from
\* left to right, each argument of the node's own kind replaced by its
\* operands and every other argument kept whole; so two constructions whose
\* opened arguments agree give equal nodes, and no constructed associative
\* node has a direct operand of its own kind.
C5_AssociativeFlattened ==
    /\ expr_call.op \in AssociativeOps =>
          /\ expr_call.res.args = OpenedAll(expr_call.op, expr_call.given)
          /\ \A n \in built :
                (n.op = expr_call.op /\ OpenedAll(n.op, n.args) = OpenedAll(expr_call.op, expr_call.given))
                    => n = expr_call.res
    /\ \A n \in built : n.op \in AssociativeOps =>
          \A i \in 1..Len(n.args) : n.args[i].op # n.op

\* C5 witness: an Add was built from an Add and a Sub; the Add was opened,
\* the Sub stayed one operand.
C5_Witness ==
    /\ expr_call.op = "Add"
    /\ Len(expr_call.given) = 2
    /\ expr_call.given[1].op = "Add"
    /\ expr_call.given[2].op = "Sub"
    /\ Len(expr_call.res.args) = 3
    /\ expr_call.res.args[3].op = "Sub"

\* The sorts of the arguments of the last operator construction
GivenSorts == {sort_of(op_call.given[i]) : i \in 1..Len(op_call.given)}

\* C16: over operands that are Vars, literals or operator nodes, Lt, Le, Gt,
\* Ge, Add, Sub, Mul, Div and Negate are constructed exactly when all operands
\* have sort Int or all have sort Real, Mod exactly when all have sort Int;
\* every other call raises ValueError and returns no node.
C16_ArithmeticOperandSorts ==
    (/\ op_call.op \in {"Lt", "Le", "Gt", "Ge", "Add", "Sub", "Mul", "Div", "Negate", "Mod"}
     /\ \A i \in 1..Len(op_call.given) : op_call.given[i].op \notin {"Field", "EnumConst"})
        => IF \/ GivenSorts = {INT}
              \/ GivenSorts = {REAL} /\ op_call.op # "Mod"
           THEN op_call.exc = "none" /\ op_call.res.op = op_call.op
           ELSE op_call.exc = "ValueError" /\ op_call.res = NoExpr

\* An Int-sorted operator node compared with a Real operand: rejected
C16_Witness ==
    /\ op_call.op = "Lt"
    /\ op_call.given[1].op = "Add"
    /\ sort_of(op_call.given[2]) = REAL
    /\ op_call.exc = "ValueError"

\* Mod of an Int-sorted operator node and an int literal: constructed
C16_WitnessMod ==
    /\ op_call.op = "Mod"
    /\ op_call.given[1].op = "Sub"
    /\ op_call.given[2].op = "int"
    /\ op_call.exc = "none"

\* C17: sort_of, called on a leaf or on a constructed node, returns a sort:
\* the declared sort of a Var, the sort of the struct's field for a Field,
\* the enum of an EnumConst, Int and Real for an int and a float literal,
\* the boolean enum for PtrIsNil, PtrIsPtr, Eq, Ne, Lt, Le, Gt, Ge, And, Or
\* and Not, the one sort of the operands for Add, Sub, Mul, Div and Negate,
\* Int for Mod; a second call on the same expression returns the same sort,
\* and the calls leave the expression as it was.
C17_SortOfTotalAndStable ==
    \A k \in 1..Len(op_call.sorts) :
        LET expr == op_call.asked
            sort == op_call.sorts[k]
        IN  /\ sort \in {INT, REAL, BOOL, PTR_BIRFC, PTR_INT}
            /\ sort = op_call.sorts[1]
            /\ expr \in OpLeaves \/ expr = op_call.res
            /\ CASE expr.op = "Var" -> sort = expr.sort
                 [] expr.op = "Field" ->
                        sort = (CASE expr.name = "i" -> INT [] expr.name = "b" -> BOOL
                                  [] expr.name = "c" -> expr.args[1].sort)
                 [] expr.op = "EnumConst" -> sort = BOOL
                 [] expr.op = "int" -> sort = INT
                 [] expr.op = "float" -> sort = REAL
                 [] expr.op \in {"PtrIsNil", "PtrIsPtr", "Eq", "Ne", "Lt", "Le", "Gt", "Ge",
                                 "And", "Or", "Not"} -> sort = BOOL
                 [] expr.op = "Mod" -> sort = INT
                 [] expr.op \in {"Add", "Sub", "Mul", "Div", "Negate"} -> GivenSorts = {sort}

\* sort_of called twice on a Sub of a Real operator node and a float literal
C17_Witness ==
    /\ Len(op_call.sorts) = 2
    /\ op_call.asked = op_call.res
    /\ op_call.res.op = "Sub"
    /\ op_call.given[1].op = "Negate"
    /\ op_call.sorts = <<REAL, REAL>>

\* A Field occurs in the expression, at any depth
RECURSIVE HasField(_)
HasField(expr) ==
    \/ expr.op = "Field"
    \/ \E i \in 1..Len(expr.args) : HasField(expr.args[i])

\* C18: every operator class called with a Field among its arguments raises
\* ValueError and returns no node, whatever the Field's sort; so no
\* constructed operator node has a Field in it at any depth.
C18_NoFieldUnderAnyOperator ==
    /\ (\E i \in 1..Len(op_call.given) : HasField(op_call.given[i]))
          => op_call.exc = "ValueError" /\ op_call.res = NoExpr
    /\ ~HasField(op_call.res)

\* Eq(i, p.i), a Var and a Field both of sort Int: rejected
C18_Witness ==
    /\ op_call.op = "Eq"
    /\ op_call.given = <<Leaf("Var", "i", INT), Field(p_var, "i")>>
    /\ op_call.exc = "ValueError"
    /\ op_call.res = NoExpr

\* C19: Eq, Ne and the arithmetic operators, called with a Field among
\* operands whose sorts satisfy the operator's sort rule, return a node.
C19_FieldAcceptedOutsideConnectives ==
    (/\ op_call.op \in {"Eq", "Ne", "Lt", "Le", "Gt", "Ge", "Add", "Sub", "Mul", "Div", "Mod", "Negate"}
     /\ \E i \in 1..Len(op_call.given) : op_call.given[i].op = "Field"
     /\ IF op_call.op \in {"Eq", "Ne"}
        THEN \E sort \in {INT, REAL, BOOL} : GivenSorts = {sort}
        ELSE GivenSorts = {INT} \/ (GivenSorts = {REAL} /\ op_call.op # "Mod"))
        => op_call.exc = "none" /\ op_call.res.op = op_call.op

-----------------------------------------------------------------------------
(* Function (ir/function.py, ir/instructions.py, ir/enviroment.py) *)

\* The environment of the functions built here: the root, a pointer to the
\* node struct, and the data Vars a and u, of which a is always declared
root_var == Leaf("Var", "root", PTR_NODE)
a_var == Leaf("Var", "a", INT)
u_var == Leaf("Var", "u", INT)
LocalVars == {{a_var}, {a_var, u_var}}
NodeFields == {"left", "right", "value"}
ReturnTypes == {UNIT, INT}

NoLabel == ""
Instr(cls, label, target, operands) ==
    [cls |-> cls, label |-> label, target |-> target, operands |-> operands]

\* The instruction objects the caller holds, an object's identity being its
\* position here: objects 1 and 2 are two objects of equal value.
Objects ==
    << Instr("Return", NoLabel, "", <<>>),
       Instr("Return", NoLabel, "", <<>>),
       Instr("Return", "L", "", <<>>),
       Instr("Goto", NoLabel, "L", <<>>),
       Instr("IfGoto", "M", "L", << Node("Lt", <<a_var, u_var>>) >>),
       Instr("Return", NoLabel, "", << Node("Add", <<a_var, u_var>>) >>),
       Instr("Return", NoLabel, "", << Node("Add", <<u_var, a_var>>) >>),
       Instr("Return", NoLabel, "", << Node("Add", << Node("Sub", <<a_var, u_var>>), a_var >>) >>),
       Instr("VarAssignExpr", NoLabel, "", <<u_var, a_var>>),
       Instr("PtrAssignNil", NoLabel, "", <<root_var>>),
       Instr("New", NoLabel, "", <<root_var>>),
       Instr("VarAssignExpr", "L", "", <<a_var, a_var>>) >>

ObjectIds == 1..Len(Objects)

\* Every tuple of at most MaxLen instruction objects
Programs == UNION {[1..n -> ObjectIds] : n \in 0..MaxLen}

Put(map, key, value) ==
    [k \in DOMAIN map \cup {key} |-> IF k = key THEN value ELSE map[k]]

NoLabels == [l \in {} |-> 0]
NoInfos == [i \in {} |-> 0]

\* InstructionInfo(pc, next_pc): next_pc is one index, or the pair
\* (then, else) of an IfGoto; both are kept as tuples, of length 1 and 2
InstructionInfo(pc, next_pc) == [pc |-> pc, next_pc |-> next_pc]
NoInstructionInfo == [pc |-> -1, next_pc |-> <<>>]

\* A label scan that lets a later instruction take over a label
RECURSIVE _build_labels_last_wins(_, _, _, _)
_build_labels_last_wins(heap, instructions, idx, labels) ==
    IF idx = Len(instructions) THEN [exc |-> "none", labels |-> labels]
    ELSE LET instr == heap[instructions[idx + 1]]
         IN  IF instr.label = NoLabel
             THEN _build_labels_last_wins(heap, instructions, idx + 1, labels)
             ELSE _build_labels_last_wins(heap, instructions, idx + 1,
                                          Put(labels, instr.label, idx))

\* Function._build_labels, from index idx (0-based) on; heap maps the
\* identity of an instruction object to the object
RECURSIVE _build_labels(_, _, _, _)
_build_labels(heap, instructions, idx, labels) ==
    IF idx = Len(instructions) THEN [exc |-> "none", labels |-> labels]
    ELSE LET instr == heap[instructions[idx + 1]]
         IN  IF instr.label = NoLabel
             THEN _build_labels(heap, instructions, idx + 1, labels)
             ELSE IF instr.label \in DOMAIN labels
             THEN [exc |-> "ValueError", labels |-> labels]
             ELSE _build_labels(heap, instructions, idx + 1, Put(labels, instr.label, idx))

\* A table builder that takes a jump to a missing label for a fall-through
RECURSIVE _build_info_missing_falls_through(_, _, _, _, _)
_build_info_missing_falls_through(heap, instructions, labels, idx, info) ==
    IF idx = Len(instructions) THEN [exc |-> "none", info |-> info]
    ELSE LET instr == heap[instructions[idx + 1]]
             key == instructions[idx + 1]
             to == IF instr.target \in DOMAIN labels THEN labels[instr.target] ELSE idx + 1
         IN  _build_info_missing_falls_through(heap, instructions, labels, idx + 1,
                Put(info, key,
                    InstructionInfo(idx,
                        CASE instr.cls = "IfGoto" -> <<to, idx + 1>>
                          [] instr.cls = "Goto" -> <<to>>
                          [] OTHER -> <<idx + 1>>)))

\* Function._build_info, from index idx (0-based) on
RECURSIVE _build_info(_, _, _, _, _)
_build_info(heap, instructions, labels, idx, info) ==
    IF idx = Len(instructions) THEN [exc |-> "none", info |-> info]
    ELSE LET instr == heap[instructions[idx + 1]]
             key == instructions[idx + 1]    \* id(instr)
         IN  CASE instr.cls = "IfGoto" ->
                    IF instr.target \notin DOMAIN labels
                    THEN [exc |-> "KeyError", info |-> info]
                    ELSE _build_info(heap, instructions, labels, idx + 1,
                            Put(info, key, InstructionInfo(idx, <<labels[instr.target], idx + 1>>)))
               [] instr.cls = "Goto" ->
                    IF instr.target \notin DOMAIN labels
                    THEN [exc |-> "KeyError", info |-> info]
                    ELSE _build_info(heap, instructions, labels, idx + 1,
                            Put(info, key, InstructionInfo(idx, <<labels[instr.target]>>)))
               [] OTHER ->
                    _build_info(heap, instructions, labels, idx + 1,
                            Put(info, key, InstructionInfo(idx, <<idx + 1>>)))

\* all(self._validate_expression(arg) for arg in op.args()): the calls
\* return None, so all() stops at the first operand
ValidatedArgs(args) == IF args = <<>> THEN <<>> ELSE <<Head(args)>>

\* Function._validate_expression: the exception it raises, or "none"
RECURSIVE _validate_expression(_, _)
_validate_expression(env_vars, op) ==
    LET RECURSIVE First(_, _)
        First(args, i) ==
            IF i > Len(args) THEN "none"
            ELSE LET r == _validate_expression(env_vars, args[i])
                 IN  IF r # "none" THEN r ELSE First(args, i + 1)
    IN  CASE op.op = "Var" ->
                IF op \notin env_vars THEN "ValueError"
                ELSE IF ~is_ptr(sort_of(op)) THEN "none"
                ELSE "AttributeError"   \* sort_op.sort: a Pointer has no such attribute
          [] op.op = "Field" ->
                IF First(op.args, 1) # "none" THEN First(op.args, 1)
                ELSE IF op.name \notin NodeFields THEN "ValueError"
                ELSE "none"
          [] OTHER -> First(ValidatedArgs(op.args), 1)

\* Function._validate_instruction: the exception it raises, or "none"
_validate_instruction(env_vars, instr) ==
    LET RECURSIVE First(_)
        First(i) ==
            IF i > Len(instr.operands) THEN "none"
            ELSE LET r == _validate_expression(env_vars, instr.operands[i])
                 IN  IF r # "none" THEN r ELSE First(i + 1)
    IN  IF instr.cls \in {"New", "Free"}
        THEN "AttributeError"           \* pointer.sort.sort
        ELSE First(1)

RECURSIVE ValidateAll(_, _, _)
ValidateAll(env_vars, instructions, i) ==
    IF i > Len(instructions) THEN "none"
    ELSE LET r == _validate_instruction(env_vars, Objects[instructions[i]])
         IN  IF r # "none" THEN r ELSE ValidateAll(env_vars, instructions, i + 1)

ReturnSort(instr) == IF instr.operands = <<>> THEN UNIT ELSE sort_of(instr.operands[1])

\* Function.__post_init__: the exception it raises ("none" when the
\* Function is constructed) and the table of infos
post_init(local_vars, return_type, instructions) ==
    LET l == _build_labels(Objects, instructions, 0, NoLabels)
        b == _build_info(Objects, instructions, l.labels, 0, NoInfos)
        v == ValidateAll(local_vars \cup {root_var}, instructions, 1)
    IN  IF l.exc # "none" THEN [exc |-> l.exc, info |-> NoInfos]
        ELSE IF b.exc # "none" THEN [exc |-> b.exc, info |-> NoInfos]
        ELSE IF v # "none" THEN [exc |-> v, info |-> b.info]
        ELSE IF ~is_ptr(sort_of(root_var)) THEN [exc |-> "ValueError", info |-> b.info]
        ELSE IF \E i \in 1..Len(instructions) :
                    /\ Objects[instructions[i]].cls = "Return"
                    /\ ReturnSort(Objects[instructions[i]]) # return_type
        THEN [exc |-> "ValueError", info |-> b.info]
        ELSE [exc |-> "none", info |-> b.info]

NoFunction ==
    [constructed |-> FALSE, local_vars |-> {}, return_type |-> 0,
     instructions |-> <<>>, _info |-> NoInfos]

NoQuery == [pc |-> -1, res |-> NoInstructionInfo]
NoFunCall == [called |-> FALSE, local_vars |-> {}, return_type |-> 0, instructions |-> <<>>]

FunInit ==
    /\ instr_call = NoInstrCall
    /\ function = NoFunction
    /\ fun_exc = "none"
    /\ fun_call = NoFunCall
    /\ query = NoQuery

\* Function(name, Enviroment(node, root, local_vars), return_type, instructions).
\* A behaviour follows one construction: constructions share no state.
Function(local_vars, return_type, instructions) ==
    /\ function = NoFunction /\ fun_exc = "none" /\ ~fun_call.called
    /\ query' = NoQuery
    /\ fun_call' = [called |-> TRUE, local_vars |-> local_vars,
                    return_type |-> return_type, instructions |-> instructions]
    /\ UNCHANGED instr_call
    /\ LET r == post_init(local_vars, return_type, instructions)
       IN  /\ fun_exc' = r.exc
           /\ function' =
                 IF r.exc # "none" THEN NoFunction
                 ELSE [constructed |-> TRUE, local_vars |-> local_vars,
                       return_type |-> return_type, instructions |-> instructions,
                       _info |-> r.info]

\* The pointer-assignment instructions, each called once on its two operands:
\* the __post_init__ of the class raises ValueError or returns
InstrCalled(cls, left, right, ok) ==
    /\ instr_call = NoInstrCall /\ op_call = NoOpCall
    /\ ~function.constructed /\ ~fun_call.called
    /\ instr_call' = [cls |-> cls, left |-> left, right |-> right,
                      exc |-> IF ok THEN "none" ELSE "ValueError"]
    /\ UNCHANGED <<function, fun_exc, fun_call, query>>

\* PtrAssignPtr(left: Var, right: Var)
PtrAssignPtr(left, right) ==
    InstrCalled("PtrAssignPtr", left, right,
        /\ is_ptr(sort_of(left))
        /\ is_ptr(sort_of(right))
        /\ left.sort = right.sort)

\* PtrAssignField(left: Var, right: Field)
PtrAssignField(left, right) ==
    InstrCalled("PtrAssignField", left, right,
        /\ is_ptr(sort_of(left))
        /\ is_ptr(sort_of(right))
        /\ sort_of(left) = sort_of(right))

\* FieldAssignPtr(left: Field, right: Var)
FieldAssignPtr(left, right) ==
    InstrCalled("FieldAssignPtr", left, right,
        /\ is_ptr(sort_of(left))
        /\ is_ptr(sort_of(right)))

\* New(pointer: Var)
New(pointer) ==
    InstrCalled("New", pointer, NoExpr, is_ptr(sort_of(pointer)))

\* Free(pointer: Var)
Free(pointer) ==
    InstrCalled("Free", pointer, NoExpr, is_ptr(sort_of(pointer)))

\* Function.info_of, on the instruction object instr
info_of(instr) == function._info[instr]

\* Function.info_at
info_at(pc) ==
    /\ function.constructed
    /\ pc \in 0..(Len(function.instructions) - 1)
    /\ query' = [pc |-> pc, res |-> info_of(function.instructions[pc + 1])]
    /\ fun_exc' = "none"
    /\ UNCHANGED <<function, fun_call, instr_call>>

-----------------------------------------------------------------------------
(* Function: properties *)

\* The index of the instruction that carries the label
LabelIndex(instructions, label) ==
    CHOOSE i \in 0..(Len(instructions) - 1) : Objects[instructions[i + 1]].label = label

RECURSIVE VarsOf(_)
VarsOf(expr) ==
    IF expr.op = "Var" THEN {expr}
    ELSE UNION {VarsOf(expr.args[i]) : i \in 1..Len(expr.args)}

\* C1: in a constructed Function, info_at(pc) has pc for its pc and for its
\* next_pc the index of the target's instruction for a Goto, that index
\* paired with pc+1 for an IfGoto, and pc+1 for any other instruction, also
\* when one instruction object stands at several positions.
C1_InfoAtPcAndNextPc ==
    query.pc # -1 =>
        LET instr == Objects[function.instructions[query.pc + 1]]
            target == LabelIndex(function.instructions, instr.target)
        IN  query.res =
                InstructionInfo(query.pc,
                    CASE instr.cls = "Goto" -> <<target>>
                      [] instr.cls = "IfGoto" -> <<target, query.pc + 1>>
                      [] OTHER -> <<query.pc + 1>>)

\* C2: a Function is constructed only if every Var occurring in an operand
\* of an instruction, at any depth, is in the declared variables.
C2_UndeclaredVarFailsConstruction ==
    function.constructed =>
        \A i \in 1..Len(function.instructions) :
            LET instr == Objects[function.instructions[i]]
            IN  \A j \in 1..Len(instr.operands) :
                    VarsOf(instr.operands[j]) \subseteq function.local_vars \cup {root_var}

\* Two positions of the sequence carry one label
SameLabelTwice(instructions) ==
    \E i, j \in 1..Len(instructions) :
        /\ i < j
        /\ Objects[instructions[i]].label # NoLabel
        /\ Objects[instructions[i]].label = Objects[instructions[j]].label

\* The labels carried by the instructions of the sequence
LabelsOf(instructions) ==
    {Objects[instructions[i]].label : i \in 1..Len(instructions)} \ {NoLabel}

\* C11: a constructor call on a sequence in which two instructions carry the
\* same label raises and produces no Function; when no two labelled
\* instructions share a label the label scan raises nothing, however many
\* unlabelled instructions stand in the sequence, and the scan's table has
\* exactly the labels carried.
C11_DuplicateLabelFailsConstruction ==
    fun_call.called =>
        LET scan == _build_labels(Objects, fun_call.instructions, 0, NoLabels)
        IN  IF SameLabelTwice(fun_call.instructions)
            THEN /\ fun_exc = "ValueError"
                 /\ function = NoFunction
                 /\ scan.exc = "ValueError"
            ELSE /\ scan.exc = "none"
                 /\ DOMAIN scan.labels = LabelsOf(fun_call.instructions)

\* Two distinct objects labelled L in one sequence: the call raised
C11_Witness ==
    /\ fun_call.called
    /\ fun_call.instructions = <<3, 1, 12>>
    /\ fun_exc = "ValueError"
    /\ function = NoFunction

\* Two unlabelled objects of equal value beside a labelled one: constructed
C11_WitnessUnlabelled ==
    /\ function.constructed
    /\ function.instructions = <<1, 3, 2>>

\* The positions (1-based) of the jumps of the sequence
Jumps(instructions) ==
    {i \in 1..Len(instructions) : Objects[instructions[i]].cls \in {"Goto", "IfGoto"}}

\* C12: a constructor call on a sequence with a Goto or IfGoto whose target
\* is the label of no instruction of the sequence raises and produces no
\* Function; in a constructed Function the first next_pc of every jump is an
\* index in 0..n-1, that of an instruction carrying the jump's target.
C12_UnresolvedTargetFailsConstruction ==
    /\ fun_call.called =>
          ((\E i \in Jumps(fun_call.instructions) :
                Objects[fun_call.instructions[i]].target \notin LabelsOf(fun_call.instructions))
            => fun_exc # "none" /\ function = NoFunction)
    /\ function.constructed =>
          \A i \in Jumps(function.instructions) :
              LET instr == Objects[function.instructions[i]]
                  to == info_of(function.instructions[i]).next_pc[1]
              IN  /\ to \in 0..(Len(function.instructions) - 1)
                  /\ Objects[function.instructions[to + 1]].label = instr.target

\* A Goto L in a sequence without an L: the table builder raised KeyError
C12_Witness ==
    /\ fun_call.called
    /\ fun_call.instructions = <<1, 4>>
    /\ fun_exc = "KeyError"
    /\ function = NoFunction

\* A Goto L and an IfGoto L with an L in the sequence: constructed
C12_WitnessResolved ==
    /\ function.constructed
    /\ function.instructions = <<4, 5, 12>>
    /\ info_of(4).next_pc = <<2>>
    /\ info_of(5).next_pc = <<2, 2>>

\* Some Return of the sequence has a value sort other than return_type
ReturnMismatch(return_type, instructions) ==
    \E i \in 1..Len(instructions) :
        /\ Objects[instructions[i]].cls = "Return"
        /\ ReturnSort(Objects[instructions[i]]) # return_type

\* The checks that come before the Return check raise nothing
PassesEarlierChecks(local_vars, instructions) ==
    LET l == _build_labels(Objects, instructions, 0, NoLabels)
    IN  /\ l.exc = "none"
        /\ _build_info(Objects, instructions, l.labels, 0, NoInfos).exc = "none"
        /\ ValidateAll(local_vars \cup {root_var}, instructions, 1) = "none"

\* C13: a constructor call on a sequence with a Return whose value sort (Unit
\* when it has no value) is not return_type, and with nothing else wrong,
\* raises IncompatibleReturnTypeError and produces no Function.
C13_ReturnMismatchRaisesIncompatibleReturnType ==
    (/\ fun_call.called
     /\ PassesEarlierChecks(fun_call.local_vars, fun_call.instructions)
     /\ ReturnMismatch(fun_call.return_type, fun_call.instructions))
        => fun_exc = "IncompatibleReturnTypeError" /\ function = NoFunction

\* C20: PtrAssignPtr(var, var), PtrAssignField(var, field) and
\* FieldAssignPtr(field, var) raise ValueError unless both operands are
\* pointer-sorted and of the same pointer sort.
C20_PointerAssignmentSameSort ==
    instr_call.cls \in {"PtrAssignPtr", "PtrAssignField", "FieldAssignPtr"} =>
        (instr_call.exc = "none" <=>
            /\ is_ptr(sort_of(instr_call.left))
            /\ is_ptr(sort_of(instr_call.right))
            /\ sort_of(instr_call.left) = sort_of(instr_call.right))

\* C21: New(v) and Free(v) are constructed only when the sort of v is a
\* pointer to a struct; any other operand makes the constructor raise.
C21_NewFreeNeedPointerToStruct ==
    instr_call.cls \in {"New", "Free"} =>
        (instr_call.exc = "none" <=>
            /\ is_ptr(sort_of(instr_call.left))
            /\ pointee_of[sort_of(instr_call.left)] \in {NODE, BIRFC})

-----------------------------------------------------------------------------
(* Lowering of a function body (parser/_internal/cparser/FuncDefVisitor.py) *)

\* C syntax trees.  An expression node: ID, Constant, StructRef, UnaryOp,
\* BinaryOp, FuncCall, Typename
CNode(k, op, name, type, value, args) ==
    [k |-> k, op |-> op, name |-> name, type |-> type, value |-> value, args |-> args]
NoCNode == CNode("", "", "", "", "", <<>>)
ID(name) == CNode("ID", "", name, "", "", <<>>)
Constant(type, value) == CNode("Constant", "", "", type, value, <<>>)
BinaryOp(op, left, right) == CNode("BinaryOp", op, "", "", "", <<left, right>>)
UnaryOp(op, expr) == CNode("UnaryOp", op, "", "", "", <<expr>>)
StructRef(name, type, field) == CNode("StructRef", "", field, type, "", <<name>>)
FuncCall(name, args) == CNode("FuncCall", "", name, "", "", args)
Typename(type) == CNode("Typename", "", "", type, "", <<>>)

\* A statement node; e is the condition of an If or a While, the rvalue of an
\* Assignment and the expression of a Return, l the lvalue of an Assignment,
\* name the label of a Label or a Goto and the operator of an Assignment,
\* a the statements under the node, b the else branch
Stmt(k, e, name, a, b) == [k |-> k, e |-> e, name |-> name, a |-> a, b |-> b, l |-> NoCNode]
AssignmentOp(op, lvalue, rvalue) == [Stmt("Assignment", rvalue, op, <<>>, <<>>) EXCEPT !.l = lvalue]
Assignment(lvalue, rvalue) == AssignmentOp("=", lvalue, rvalue)
Goto(name) == Stmt("Goto", NoCNode, name, <<>>, <<>>)
Label(name, stmt) == Stmt("Label", NoCNode, name, stmt, <<>>)
Compound(block_items) == Stmt("Compound", NoCNode, "", block_items, <<>>)
If(cond, iftrue, iffalse) == Stmt("If", cond, "", <<iftrue>>, iffalse)
While(cond, stmt) == Stmt("While", cond, "", <<stmt>>, <<>>)
Return(expr) == Stmt("Return", expr, "", <<>>, <<>>)

\* The scope of the body: the function's parameters, each declared with the
\* index 0 (`int x`, `struct node *p, *q`, `struct birfc *t`, `bool b`,
\* `double r`)
x_0 == Leaf("Var", "x_0", INT)
Scope ==
    [name \in {"x", "p", "q", "t", "b", "r"} |->
        CASE name = "x" -> x_0
          [] name = "p" -> Leaf("Var", "p_0", PTR_NODE)
          [] name = "q" -> Leaf("Var", "q_0", PTR_NODE)
          [] name = "t" -> Leaf("Var", "t_0", PTR_BIRFC)
          [] name = "b" -> Leaf("Var", "b_0", BOOL)
          [] OTHER -> Leaf("Var", "r_0", REAL)]

Value(expr) == [expr |-> expr, exc |-> "none"]
RaisedExpr(exc) == [expr |-> NoExpr, exc |-> exc]

\* body(v), the value v computed once
Once(v, body(_)) == CHOOSE res \in {body(x) : x \in {v}} : TRUE

\* An operator class called on its operands: the node, or the ValueError of
\* its validators
Construct(op, given) ==
    LET args == IF op \in AssociativeOps THEN flat_expr(op, given) ELSE given
    IN  IF Validates(op, args) THEN Value(Node(op, args)) ELSE RaisedExpr("ValueError")

\* isinstance(expr, Var) and sort_of(expr).is_ptr()
IsPtrVar(expr) == expr.op = "Var" /\ is_ptr(sort_of(expr))

\* The operator class of a C binary operator
BinaryClass ==
    [op \in {"+", "-", "*", "/", "%", "<", "<=", ">", ">=", "&&", "||"} |->
        CASE op = "+" -> "Add" [] op = "-" -> "Sub" [] op = "*" -> "Mul"
          [] op = "/" -> "Div" [] op = "%" -> "Mod" [] op = "<" -> "Lt"
          [] op = "<=" -> "Le" [] op = ">" -> "Gt" [] op = ">=" -> "Ge"
          [] op = "&&" -> "And" [] OTHER -> "Or"]

\* `!` lowered to Not whatever its operand
NotClass_always_Not(expr) == "Not"

\* The class visit_UnaryOp builds for `!expr`
NotClass(expr) == IF IsPtrVar(expr) THEN "PtrIsNil" ELSE "Not"

\* ExprVisitor.visit_UnaryOp, from the lowered operand on
visit_UnaryOp(op, expr) ==
    IF op = "!" THEN Construct(NotClass(expr), <<expr>>)
    ELSE RaisedExpr("UnsupportedFeatureError")

\* An operand of && or ||: a pointer Var is replaced by Not(PtrIsNil(.))
Operand(op, expr) ==
    IF op \in {"&&", "||"} /\ IsPtrVar(expr) THEN Node("Not", << Node("PtrIsNil", <<expr>>) >>)
    ELSE expr

\* ExprVisitor.visit_BinaryOp, from the lowered operands on: the first match
\* checks the sorts, the second builds the node
visit_BinaryOp(op, l, r) ==
    Once(<<Operand(op, l), Operand(op, r), sort_of(Operand(op, l)), sort_of(Operand(op, r))>>,
         LAMBDA v :
            LET left == v[1]
                right == v[2]
                same == v[3] = v[4]
                type_safe ==
                    CASE op \in {"!=", "=="} -> same
                      [] op \in {"+", "-", "*", "/", "%", "<", "<=", ">", ">="} ->
                            same /\ v[3] \in {INT, REAL}
                      [] op \in {"&&", "||"} -> same /\ v[3] = BOOL
                      [] OTHER -> TRUE
                cls == CASE op \in DOMAIN BinaryClass -> BinaryClass[op]
                         [] op \in {"==", "!="} /\ is_ptr(v[3]) -> "PtrIsPtr"
                         [] op = "==" -> "Eq"
                         [] op = "!=" -> "Ne"
                         [] OTHER -> ""
            IN  IF ~type_safe \/ cls = "" THEN RaisedExpr("UnsupportedFeatureError")
                ELSE Once(Construct(cls, <<left, right>>),
                          LAMBDA built_node :
                             IF built_node.exc = "none" /\ op = "!=" /\ cls = "PtrIsPtr"
                             THEN Value(Node("Not", <<built_node.expr>>))
                             ELSE built_node))

\* ExprVisitor.visit; is_sub_expr is the visitor's flag, set on entering a
\* unary or a binary operator and never reset.  The module of ExprVisitor
\* binds no name Field, and a node without a visit method (a FuncCall) gives
\* None, of which sort_of knows no sort.
RECURSIVE ExprVisitor_visit(_, _)
ExprVisitor_visit(node, is_sub_expr) ==
    \* child: self.visit of each child, the flag being set by an operator above it
    Once([i \in 1..Len(node.args) |->
            ExprVisitor_visit(node.args[i], is_sub_expr \/ node.k \in {"UnaryOp", "BinaryOp"})],
         LAMBDA child :
            LET raised == {i \in 1..Len(node.args) : child[i].exc # "none"}
                first_raised == child[CHOOSE i \in raised : \A j \in raised : i <= j]
            IN  CASE node.k = "ID" ->
                        \* UndefinedSymbolError(message): the class takes (line, name)
                        IF node.name \notin DOMAIN Scope THEN RaisedExpr("TypeError")
                        ELSE Value(Scope[node.name])
                  [] node.k = "Constant" ->
                        CASE node.type = "int" -> Value(Leaf("int", node.value, INT))
                          [] node.type \in {"float", "double"} ->
                                Value(Leaf("float", node.value, REAL))
                          [] OTHER -> RaisedExpr("UnsupportedFeatureError")
                  [] node.k = "StructRef" ->
                        IF node.type # "->" \/ is_sub_expr
                        THEN RaisedExpr("UnsupportedFeatureError")
                        ELSE IF raised # {} THEN first_raised
                        ELSE RaisedExpr("NameError")
                  [] node.k = "UnaryOp" ->
                        IF node.op # "!" THEN RaisedExpr("UnsupportedFeatureError")
                        ELSE IF raised # {} THEN first_raised
                        ELSE visit_UnaryOp(node.op, child[1].expr)
                  [] node.k = "BinaryOp" ->
                        IF raised # {} THEN first_raised
                        ELSE visit_BinaryOp(node.op, child[1].expr, child[2].expr)
                  [] OTHER ->
                        \* a FuncCall: generic_visit visits the ID of the callee
                        IF node.name \notin DOMAIN Scope THEN RaisedExpr("TypeError")
                        ELSE RaisedExpr("ValueError"))

\* FuncDefVisitor.visit_expr: a new ExprVisitor over the scopes, run on the node
visit_expr(node) == ExprVisitor_visit(node, FALSE)

\* FuncDefVisitor.visit_condition
visit_condition(node) ==
    Once(visit_expr(node),
         LAMBDA cond :
            IF cond.exc # "none" THEN cond
            ELSE IF cond.expr.op = "Var" /\ is_ptr(cond.expr.sort)
            THEN Value(Node("Not", << Node("PtrIsNil", <<cond.expr>>) >>))
            ELSE IF cond.expr.op = "Var"
            THEN RaisedExpr("NameError")        \* case Var(_, Bool()): no Bool is defined
            ELSE IF sort_of(cond.expr) = BOOL THEN cond
            ELSE RaisedExpr("UnsupportedFeatureError"))

\* _Labeled.with_label: a copy of the instruction, its label overwritten
with_label(instr, label) == [instr EXCEPT !.label = label]

\* isinstance(first, c_ast.Label), first being an Instruction
IsCAstLabel(first) == FALSE

\* mutant of visit_If: the true branch emitted before the else branch
visit_If_true_first(cond, iftrue, iffalse, counter) ==
    << Instr("IfGoto", NoLabel, "#IFTRUE_" \o ToString(counter), <<cond>>) >>
        \o << with_label(Head(iftrue), "#IFTRUE_" \o ToString(counter)) >> \o Tail(iftrue)
        \o << Instr("Goto", NoLabel, "#ENDIF_" \o ToString(counter), <<>>) >>
        \o iffalse
        \o << Instr("Skip", "#ENDIF_" \o ToString(counter), "", <<>>) >>

\* An if whose labels do not carry the counter
visit_If_counter_unused(cond, iftrue, iffalse, counter) ==
    << Instr("IfGoto", NoLabel, "#IFTRUE", <<cond>>) >>
        \o iffalse
        \o << Instr("Goto", NoLabel, "#ENDIF", <<>>) >>
        \o << with_label(Head(iftrue), "#IFTRUE") >> \o Tail(iftrue)
        \o << Instr("Skip", "#ENDIF", "", <<>>) >>

\* FuncDefVisitor.visit_If, from the lowered condition and branches on: the
\* instructions it yields
visit_If(cond, iftrue, iffalse, counter) ==
    LET iftrue_first == Head(iftrue)
        iftrue_tail == Tail(iftrue)
        iftrue_label == IF IsCAstLabel(iftrue_first) THEN iftrue_first.name
                        ELSE "#IFTRUE_" \o ToString(counter)
        endif_label == "#ENDIF_" \o ToString(counter)
    IN  << Instr("IfGoto", NoLabel, iftrue_label, <<cond>>) >>
            \o iffalse
            \o << Instr("Goto", NoLabel, endif_label, <<>>) >>
            \o << with_label(iftrue_first, iftrue_label) >>
            \o iftrue_tail
            \o << Instr("Skip", endif_label, "", <<>>) >>

\* mutant of visit_While: the loop entered at its body
visit_While_body_first(cond, whilebody, counter) ==
    << with_label(Head(whilebody), "#WHILE_BODY_" \o ToString(counter)) >> \o Tail(whilebody)
        \o << Instr("IfGoto", "#WHILE_COND_" \o ToString(counter),
                    "#WHILE_BODY_" \o ToString(counter), <<cond>>) >>
        \o << Instr("Goto", NoLabel, "#WHILE_COND_" \o ToString(counter), <<>>) >>

\* FuncDefVisitor.visit_While, from the lowered condition and body on
visit_While(cond, whilebody, counter) ==
    LET whilebody_first == Head(whilebody)
        whilebody_tail == Tail(whilebody)
        whilebody_label == IF IsCAstLabel(whilebody_first) THEN whilebody_first.name
                           ELSE "#WHILE_BODY_" \o ToString(counter)
        whilecond_label == "#WHILE_COND_" \o ToString(counter)
    IN  << Instr("Goto", NoLabel, whilecond_label, <<>>) >>
            \o << with_label(whilebody_first, whilebody_label) >>
            \o whilebody_tail
            \o << Instr("IfGoto", whilecond_label, whilebody_label, <<cond>>) >>

\* FuncDefVisitor.known_sorts, and the interned Pointer(sort)
known_sorts ==
    [name \in {"int", "node", "birfc"} |->
        CASE name = "int" -> INT [] name = "node" -> NODE [] OTHER -> BIRFC]
Pointer(sort) == CHOOSE ptr \in DOMAIN pointee_of : pointee_of[ptr] = sort

\* What a visit of a call or of a sizeof gives: a sort, instructions, or an
\* exception
CallSort(sort) == [sort |-> sort, ins |-> <<>>, exc |-> "none"]
CallInstructions(ins) == [sort |-> 0, ins |-> ins, exc |-> "none"]
CallRaised(exc) == [sort |-> 0, ins |-> <<>>, exc |-> exc]

\* FuncDefVisitor.visit_UnaryOp: the sort named by sizeof(type); node.expr.type
\* exists on a Typename only
FuncDefVisitor_visit_UnaryOp(node) ==
    IF node.op # "sizeof" THEN CallRaised("UnsupportedFeatureError")
    ELSE IF node.args[1].k # "Typename" THEN CallRaised("AttributeError")
    ELSE IF node.args[1].type \notin DOMAIN known_sorts THEN CallRaised("UnknownTypeError")
    ELSE CallSort(known_sorts[node.args[1].type])

\* mutant of visit_FuncCall: free accepted on a variable of any sort
free_any_variable(ptr) ==
    IF ptr.op # "Var" THEN CallRaised("UnsupportedFeatureError")
    ELSE CallInstructions(<< Instr("Free", NoLabel, "", <<ptr>>) >>)

\* visit_FuncCall, case "free", from the lowered argument on
free(ptr) ==
    IF ptr.op # "Var" THEN CallRaised("UnsupportedFeatureError")
    ELSE IF ~is_ptr(sort_of(ptr)) THEN CallRaised("UnsupportedFeatureError")
    ELSE CallInstructions(<< Instr("Free", NoLabel, "", <<ptr>>) >>)

\* FuncDefVisitor.visit_FuncCall.  In `not isinstance(arg, c_ast.UnaryOp) and
\* arg.op != "sizeof"` the attribute op is read on a node that is no UnaryOp:
\* a BinaryOp has one, an ID, a Constant, a StructRef and a FuncCall have none.
visit_FuncCall(node) ==
    CASE node.name = "malloc" ->
            IF Len(node.args) # 1 THEN CallRaised("UnsupportedFeatureError")
            ELSE IF node.args[1].k = "BinaryOp" THEN CallRaised("UnsupportedFeatureError")
            ELSE IF node.args[1].k # "UnaryOp" THEN CallRaised("AttributeError")
            ELSE FuncDefVisitor_visit_UnaryOp(node.args[1])
      [] node.name = "free" ->
            IF Len(node.args) # 1 THEN CallRaised("UnsupportedFeatureError")
            ELSE Once(visit_expr(node.args[1]),
                      LAMBDA ptr : IF ptr.exc # "none" THEN CallRaised(ptr.exc)
                                   ELSE free(ptr.expr))
      [] node.name = "sizeof" ->
            \* the argument is no c_ast.TypeDecl
            CallRaised("UnsupportedFeatureError")
      [] OTHER -> CallRaised("UnsupportedFeatureError")

\* FuncDefVisitor.visit_Assignment: the instruction yielded
visit_Assignment(node) ==
    Once(<<visit_expr(node.l), visit_expr(node.e), visit_FuncCall(node.e)>>,
         LAMBDA v :
            LET lvalue == v[1]
                rvalue == v[2]
                sort == v[3]
            IN  IF node.l.k \notin {"ID", "StructRef"} THEN RaisedExpr("UnsupportedFeatureError")
                ELSE IF lvalue.exc # "none" THEN lvalue
                ELSE IF node.e.k = "FuncCall"
                THEN IF node.e.name # "malloc" THEN RaisedExpr("UnsupportedFeatureError")
                     ELSE IF sort.exc # "none" THEN RaisedExpr(sort.exc)
                     ELSE IF Pointer(sort.sort) # sort_of(lvalue.expr)
                     THEN RaisedExpr("UnsupportedFeatureError")
                     ELSE Value(Instr("New", NoLabel, "", <<lvalue.expr>>))
                ELSE IF rvalue.exc # "none" THEN rvalue
                ELSE IF node.name # "=" THEN RaisedExpr("UnsupportedFeatureError")
                ELSE IF sort_of(lvalue.expr) # sort_of(rvalue.expr)
                THEN RaisedExpr("UnsupportedFeatureError")
                ELSE IF is_ptr(sort_of(lvalue.expr))
                THEN IF lvalue.expr.op = "Var" /\ rvalue.expr.op = "Var"
                     THEN Value(Instr("PtrAssignPtr", NoLabel, "", <<lvalue.expr, rvalue.expr>>))
                     ELSE RaisedExpr("UnsupportedFeatureError")
                ELSE Value(Instr("VarAssignExpr", NoLabel, "", <<lvalue.expr, rvalue.expr>>)))

\* FuncDefVisitor.visit_Return, in a function of the given return sort; expr
\* is NoCNode for `return;`
visit_Return(expr, return_sort) ==
    Once(IF expr = NoCNode THEN Value(NoExpr) ELSE visit_expr(expr),
         LAMBDA visited_expr :
            LET ret_expr == IF return_sort = BOOL /\ IsPtrVar(visited_expr.expr)
                            THEN Node("Not", << Node("PtrIsNil", <<visited_expr.expr>>) >>)
                            ELSE visited_expr.expr
                ret_sort == IF expr = NoCNode THEN UNIT ELSE sort_of(ret_expr)
            IN  IF visited_expr.exc # "none" THEN visited_expr
                ELSE IF ret_sort # return_sort THEN RaisedExpr("UnsupportedFeatureError")
                ELSE IF ret_sort = UNIT THEN Value(Instr("Return", NoLabel, "", <<>>))
                ELSE Value(Instr("Return", NoLabel, "", <<ret_expr>>)))

\* What a visit gives: the instructions yielded, the cond_counter it leaves,
\* the exception it raised
Yielded(ins, counter) == [ins |-> ins, counter |-> counter, exc |-> "none"]
Raised(exc, counter) == [ins |-> <<>>, counter |-> counter, exc |-> exc]

RECURSIVE Visit(_, _)
RECURSIVE VisitFirst(_, _)

\* list(self.visit(stmt)): the generator of a statement run to its end
Visit(stmt, counter) ==
    LET RECURSIVE Items(_, _)
        \* visit_Compound: yield from self.visit(item), item by item
        Items(items, c) ==
            IF items = <<>> THEN Yielded(<<>>, c)
            ELSE LET head == Visit(Head(items), c)
                     tail == Items(Tail(items), head.counter)
                 IN  IF head.exc # "none" THEN head
                     ELSE IF tail.exc # "none" THEN tail
                     ELSE Yielded(head.ins \o tail.ins, tail.counter)
    IN  CASE stmt.k = "Assignment" ->
                Once(visit_Assignment(stmt),
                     LAMBDA r : IF r.exc # "none" THEN Raised(r.exc, counter)
                                ELSE Yielded(<<r.expr>>, counter))
          [] stmt.k = "Goto" ->
                Yielded(<< Instr("Goto", NoLabel, stmt.name, <<>>) >>, counter)
          [] stmt.k = "Label" ->
                \* visit_Label: next(self.visit(stmt)), the first instruction only
                IF stmt.a = <<>>
                THEN Yielded(<< Instr("Skip", stmt.name, "", <<>>) >>, counter)
                ELSE LET inst == VisitFirst(stmt.a[1], counter)
                     IN  IF inst.exc # "none" THEN inst
                         ELSE IF inst.ins = <<>>
                         THEN Raised("RuntimeError", inst.counter)  \* StopIteration in a generator
                         ELSE Yielded(<< with_label(inst.ins[1], stmt.name) >>, inst.counter)
          [] stmt.k = "Compound" -> Items(stmt.a, counter)
          [] stmt.k = "If" ->
                Once(visit_condition(stmt.e),
                     LAMBDA cond :
                        LET iftrue == Visit(stmt.a[1], counter)
                            iffalse == IF stmt.b = <<>> THEN Yielded(<<>>, iftrue.counter)
                                       ELSE Visit(stmt.b[1], iftrue.counter)
                        IN  IF cond.exc # "none" THEN Raised(cond.exc, counter)
                            ELSE IF iftrue.exc # "none" THEN iftrue
                            ELSE IF iftrue.ins = <<>>
                            THEN Raised("ValueError", iftrue.counter)   \* nothing to unpack
                            ELSE IF iffalse.exc # "none" THEN iffalse
                            ELSE Yielded(visit_If(cond.expr, iftrue.ins, iffalse.ins,
                                                  iffalse.counter),
                                         iffalse.counter + 1))
          [] OTHER ->
                Once(visit_condition(stmt.e),
                     LAMBDA cond :
                        LET whilebody == Visit(stmt.a[1], counter)
                        IN  IF cond.exc # "none" THEN Raised(cond.exc, counter)
                            ELSE IF whilebody.exc # "none" THEN whilebody
                            ELSE IF whilebody.ins = <<>>
                            THEN Raised("ValueError", whilebody.counter)
                            ELSE Yielded(visit_While(cond.expr, whilebody.ins,
                                                     whilebody.counter),
                                         whilebody.counter + 1))

\* next(self.visit(stmt)): the generator of a statement run to its first
\* yield.  A Compound runs its items up to the first that yields; an If and a
\* While have visited their condition and branches before they yield.
VisitFirst(stmt, counter) ==
    LET RECURSIVE Items(_, _)
        Items(items, c) ==
            IF items = <<>> THEN Yielded(<<>>, c)
            ELSE LET head == VisitFirst(Head(items), c)
                 IN  IF head.exc # "none" \/ head.ins # <<>> THEN head
                     ELSE Items(Tail(items), head.counter)
    IN  IF stmt.k = "Compound" THEN Items(stmt.a, counter)
        ELSE LET all == Visit(stmt, counter)
             IN  IF all.exc # "none" THEN all
                 ELSE Yielded(<< Head(all.ins) >>, all.counter)

\* The statements of the bodies lowered here
CondGt == BinaryOp(">", ID("x"), Constant("int", "0"))
Conds == {CondGt, ID("x"), Constant("int", "1")}
AssignOne == Assignment(ID("x"), Constant("int", "1"))
RValues == {Constant("int", "1"), Constant("float", "1.5"), BinaryOp("+", ID("x"), Constant("int", "1"))}
IfOne == If(CondGt, AssignOne, <<>>)
Blocks == {<<>>, <<AssignOne, Goto("L")>>, <<Label("L", <<AssignOne>>), IfOne>>}
Nested ==
    {AssignOne, Goto("L"), Label("L", <<>>), Label("L", <<AssignOne>>), Label("L", <<IfOne>>),
     IfOne, While(CondGt, AssignOne)} \cup {Compound(items) : items \in Blocks}
Optional(S) == {<<>>} \cup {<<s>> : s \in S}

NoStmt == Stmt("", NoCNode, "", <<>>, <<>>)
NoVisit == [stmt |-> NoStmt, at |-> -1, counter |-> -1, out |-> <<>>]

LowerInit ==
    /\ cond_counter = 0
    /\ lowered = <<>>
    /\ visited = NoVisit
    /\ low_exc = "none"
    /\ cfg = [done |-> FALSE, built |-> FALSE, info |-> NoInfos]
    /\ n_stmts = 0

\* visit_Compound on the body of the function, at its next statement: the
\* instructions of the statement join those of the body
body_item(stmt) ==
    /\ low_exc = "none" /\ ~cfg.done
    /\ n_stmts < MaxStmts
    /\ n_stmts' = n_stmts + 1
    /\ \E r \in {Visit(stmt, cond_counter)} :
           /\ cond_counter' = r.counter
           /\ low_exc' = r.exc
           /\ lowered' = lowered \o r.ins
           /\ visited' = IF r.exc # "none" THEN NoVisit
                         ELSE [stmt |-> stmt, at |-> Len(lowered),
                               counter |-> cond_counter, out |-> r.ins]
    /\ UNCHANGED cfg

body_If(cond, iftrue, iffalse) == body_item(If(cond, iftrue, iffalse))
body_While(cond, stmt) == body_item(While(cond, stmt))
body_Label(name, stmt) == body_item(Label(name, stmt))
body_Goto(name) == body_item(Goto(name))
body_Assignment(lvalue, rvalue) == body_item(Assignment(lvalue, rvalue))
body_Compound(block_items) == body_item(Compound(block_items))

\* The end of visit_FuncDef: Function(func_name, self.scopes.vars, return_sort,
\* tuple(instructions)).  The labels and the infos are built; the validation
\* that follows reads env.vars and env.root of what is a set of Vars.
\* Of what the constructor raises, the except clause rewraps
\* IncompatibleReturnTypeError alone.
visit_FuncDef ==
    /\ low_exc = "none" /\ ~cfg.done
    /\ LET ids == [i \in 1..Len(lowered) |-> i]
           l == _build_labels(lowered, ids, 0, NoLabels)
           b == _build_info(lowered, ids, l.labels, 0, NoInfos)
           exc == IF l.exc # "none" THEN l.exc
                  ELSE IF b.exc # "none" THEN b.exc
                  ELSE "AttributeError"
       IN  /\ low_exc' = IF exc = "IncompatibleReturnTypeError"     \* the except clause
                         THEN "UnsupportedFeatureError"
                         ELSE exc
           /\ cfg' = IF l.exc = "none" /\ b.exc = "none"
                     THEN [done |-> TRUE, built |-> TRUE, info |-> b.info]
                     ELSE [done |-> TRUE, built |-> FALSE, info |-> NoInfos]
    /\ UNCHANGED <<cond_counter, lowered, visited, n_stmts>>

-----------------------------------------------------------------------------
(* Lowering of one node by a FuncDefVisitor whose scope holds the parameters *)

\* The expressions lowered: the leaves, one operator over leaves, and an
\* operator over a comparison or a conjunction
CNames == {"p", "q", "t", "x", "b", "r", "z"}
CLeaves ==
    {ID(name) : name \in CNames}
        \cup {Constant("int", "0"), Constant("float", "1.5"), Constant("char", "'c'"),
              StructRef(ID("p"), "->", "left")}
COps == {"&&", "||", "==", "!=", "+", "<", "%", "&"}
CInner == {BinaryOp(op, ID(l), ID(r)) : op \in {"==", "&&"}, l, r \in {"p", "q", "b"}}
CExprs ==
    CLeaves
        \cup {UnaryOp(op, expr) : op \in {"!", "-"}, expr \in CLeaves \cup CInner}
        \cup {BinaryOp(op, l, r) : op \in COps, l \in CLeaves \cup CInner, r \in CLeaves}
ReturnSorts == {UNIT, BOOL, INT, PTR_NODE}

\* The calls lowered, as statements and as right-hand sides
SizeOf(type) == UnaryOp("sizeof", Typename(type))
CallArgs ==
    {<<>>, << Constant("int", "4") >>, << Constant("int", "0") >>, << ID("x") >>, << ID("p") >>,
     << ID("t") >>, << ID("z") >>, << ID("p"), ID("p") >>,
     << StructRef(ID("p"), "->", "left") >>, << UnaryOp("!", ID("p")) >>,
     << UnaryOp("sizeof", ID("x")) >>,
     << BinaryOp("*", Constant("int", "2"), SizeOf("node")) >>,
     << SizeOf("node"), SizeOf("node") >>}
        \cup {<< SizeOf(type) >> : type \in {"node", "birfc", "int", "list"}}
Calls == {FuncCall(name, args) : name \in {"malloc", "calloc", "free", "sizeof"}, args \in CallArgs}
LValues ==
    {ID(name) : name \in {"p", "t", "x", "r", "z"}}
        \cup {StructRef(ID("p"), "->", "left"), StructRef(ID("p"), "->", "value"),
              Constant("int", "0")}
AssignedValues ==
    Calls \cup CLeaves \cup CInner
        \cup {BinaryOp("+", ID("x"), Constant("int", "1")), BinaryOp("+", ID("x"), ID("r")),
              BinaryOp("%", ID("r"), ID("r"))}

NoVisitCall ==
    [kind |-> "", node |-> NoCNode, lvalue |-> NoCNode, op |-> "", return_sort |-> 0,
     exc |-> "none", expr |-> NoExpr, ins |-> <<>>]

VisitInit == visit_call = NoVisitCall

\* A visitor that has visited nothing yet
NewVisitor == visit_call = NoVisitCall

\* self.visit_expr(node) on a new visitor
lower_expr(node) ==
    LET r == visit_expr(node)
    IN  visit_call' = [NoVisitCall EXCEPT !.kind = "expr", !.node = node,
                                             !.exc = r.exc, !.expr = r.expr]

\* self.visit_condition(node) on a new visitor
lower_condition(node) ==
    LET r == visit_condition(node)
    IN  visit_call' = [NoVisitCall EXCEPT !.kind = "condition", !.node = node,
                                             !.exc = r.exc, !.expr = r.expr]

\* list(self.visit(Return(expr))) on a new visitor whose return_sort is set
lower_Return(expr, return_sort) ==
    LET r == visit_Return(expr, return_sort)
    IN  visit_call' = [NoVisitCall EXCEPT !.kind = "Return", !.node = expr,
                                             !.return_sort = return_sort, !.exc = r.exc,
                                             !.ins = IF r.exc = "none" THEN <<r.expr>> ELSE <<>>]

\* list(self.visit(Assignment(op, lvalue, rvalue))) on a new visitor
lower_Assignment(op, lvalue, rvalue) ==
    LET r == visit_Assignment(AssignmentOp(op, lvalue, rvalue))
    IN  visit_call' = [NoVisitCall EXCEPT !.kind = "Assignment", !.node = rvalue,
                                          !.lvalue = lvalue, !.op = op, !.exc = r.exc,
                                          !.ins = IF r.exc = "none" THEN <<r.expr>> ELSE <<>>]

\* list(self.visit(Compound([FuncCall(name, args)]))) on a new visitor: a
\* call as a statement of the body; visit_Compound iterates over what the
\* visit of the call returns, and a Sort is not iterable
lower_FuncCall(name, args) ==
    LET r == visit_FuncCall(FuncCall(name, args))
        exc == IF r.exc = "none" /\ r.sort # 0 THEN "TypeError" ELSE r.exc
    IN  visit_call' = [NoVisitCall EXCEPT !.kind = "FuncCall", !.node = FuncCall(name, args),
                                          !.exc = exc, !.ins = r.ins]

-----------------------------------------------------------------------------
(* Lowering of one node: properties *)

\* The expression a visit gave: the lowered expression, or the value returned
LoweredExpr ==
    IF visit_call.kind = "Return"
    THEN IF visit_call.ins # <<>> /\ visit_call.ins[1].operands # <<>>
         THEN visit_call.ins[1].operands[1] ELSE NoExpr
    ELSE visit_call.expr

\* A pointer Var stands directly under an operator other than PtrIsNil and PtrIsPtr
RECURSIVE PtrVarUnderGeneric(_)
PtrVarUnderGeneric(expr) ==
    \E i \in 1..Len(expr.args) :
        \/ expr.op \notin {"PtrIsNil", "PtrIsPtr", "Field"} /\ IsPtrVar(expr.args[i])
        \/ PtrVarUnderGeneric(expr.args[i])

NotNil(v) == Node("Not", << Node("PtrIsNil", <<v>>) >>)
IsPtrID(node) == node.k = "ID" /\ node.name \in DOMAIN Scope /\ is_ptr(Scope[node.name].sort)
IsDataID(node) == node.k = "ID" /\ node.name \in DOMAIN Scope /\ ~is_ptr(Scope[node.name].sort)

\* C22: no lowered expression holds a pointer Var under a generic operator.
\* A pointer variable p lowers to Not(PtrIsNil(p)) as a condition, as an
\* operand of && or || and as the value returned from a bool function; `!p`
\* lowers to PtrIsNil(p); `p == q` on pointers of one sort lowers to
\* PtrIsPtr(p, q) and `p != q` to Not(PtrIsPtr(p, q)); on data variables of
\* one sort they lower to Eq and Ne.
C22_PointerOperandsLowering ==
    LET node == visit_call.node
        kind == visit_call.kind
        l == Scope[node.args[1].name]
        r == Scope[node.args[2].name]
    IN  /\ ~PtrVarUnderGeneric(LoweredExpr)
        /\ (kind = "condition" /\ IsPtrID(node)) =>
              visit_call.exc = "none" /\ visit_call.expr = NotNil(Scope[node.name])
        /\ (kind = "Return" /\ visit_call.return_sort = BOOL /\ IsPtrID(node)) =>
              visit_call.exc = "none" /\ LoweredExpr = NotNil(Scope[node.name])
        /\ (kind \in {"expr", "condition"} /\ node.k = "UnaryOp" /\ node.op = "!"
                /\ IsPtrID(node.args[1])) =>
              visit_call.exc = "none"
                 /\ LoweredExpr = Node("PtrIsNil", << Scope[node.args[1].name] >>)
        /\ (kind = "expr" /\ node.k = "BinaryOp" /\ node.op \in {"&&", "||"}
                /\ visit_call.exc = "none") =>
              /\ IsPtrID(node.args[1]) =>
                    Head(visit_call.expr.args) = NotNil(Scope[node.args[1].name])
              /\ IsPtrID(node.args[2]) =>
                    visit_call.expr.args[Len(visit_call.expr.args)] = NotNil(Scope[node.args[2].name])
        /\ (kind = "expr" /\ node.k = "BinaryOp" /\ node.op \in {"==", "!="}
                /\ IsPtrID(node.args[1]) /\ IsPtrID(node.args[2])) =>
              IF l.sort # r.sort THEN visit_call.exc = "UnsupportedFeatureError"
              ELSE /\ visit_call.exc = "none"
                   /\ visit_call.expr = IF node.op = "==" THEN Node("PtrIsPtr", <<l, r>>)
                                        ELSE Node("Not", << Node("PtrIsPtr", <<l, r>>) >>)
        /\ (kind = "expr" /\ node.k = "BinaryOp" /\ node.op \in {"==", "!="}
                /\ IsDataID(node.args[1]) /\ IsDataID(node.args[2]) /\ l.sort = r.sort) =>
              /\ visit_call.exc = "none"
              /\ visit_call.expr = Node(IF node.op = "==" THEN "Eq" ELSE "Ne", <<l, r>>)

\* C22 witness: `p && b`, with p a pointer variable, was lowered.
C22_Witness ==
    /\ visit_call.kind = "expr" /\ visit_call.exc = "none"
    /\ visit_call.node = BinaryOp("&&", ID("p"), ID("b"))
    /\ visit_call.expr.op = "And"

\* `!p` was lowered
C22_WitnessNot ==
    visit_call.node = UnaryOp("!", ID("p")) /\ visit_call.exc = "none"

\* `p != q` was lowered
C22_WitnessNe ==
    visit_call.node = BinaryOp("!=", ID("p"), ID("q")) /\ visit_call.exc = "none"

\* a pointer was returned from a bool function
C22_WitnessReturn ==
    /\ visit_call.kind = "Return" /\ visit_call.return_sort = BOOL
    /\ visit_call.node = ID("p") /\ visit_call.exc = "none"

\* Every variable named under the node is declared and every type is known
RECURSIVE NamesKnown(_)
NamesKnown(node) ==
    CASE node.k = "ID" -> node.name \in DOMAIN Scope
      [] node.k = "Typename" -> node.type \in DOMAIN known_sorts
      [] OTHER -> \A i \in 1..Len(node.args) : NamesKnown(node.args[i])

\* `x = malloc(sizeof(T))` with x a pointer variable to T
IsNewForm ==
    /\ visit_call.kind = "Assignment"
    /\ visit_call.lvalue.k = "ID"
    /\ visit_call.node.name = "malloc"
    /\ Len(visit_call.node.args) = 1
    /\ visit_call.node.args[1].k = "UnaryOp" /\ visit_call.node.args[1].op = "sizeof"
    /\ visit_call.node.args[1].args[1].k = "Typename"
    /\ Scope[visit_call.lvalue.name].sort = Pointer(known_sorts[visit_call.node.args[1].args[1].type])

\* `free(p)` with p a pointer variable
IsFreeForm ==
    /\ visit_call.kind = "FuncCall"
    /\ visit_call.node.name = "free"
    /\ Len(visit_call.node.args) = 1
    /\ visit_call.node.args[1].k = "ID"
    /\ is_ptr(Scope[visit_call.node.args[1].name].sort)

\* C23: of the calls over declared variables and known types,
\* `x = malloc(sizeof(T))` with x a pointer to T lowers to New(x), `free(p)`
\* with p a pointer variable lowers to Free(p), and every other call raises
\* UnsupportedFeatureError.
C23_CallsLowerToNewFreeOrUnsupported ==
    (/\ visit_call.kind \in {"Assignment", "FuncCall"}
     /\ visit_call.node.k = "FuncCall"
     /\ visit_call.kind = "Assignment" => visit_call.op = "="
     /\ NamesKnown(visit_call.node) /\ NamesKnown(visit_call.lvalue)) =>
        IF IsNewForm
        THEN visit_call.exc = "none"
                /\ visit_call.ins = << Instr("New", NoLabel, "", << Scope[visit_call.lvalue.name] >>) >>
        ELSE IF IsFreeForm
        THEN visit_call.exc = "none"
                /\ visit_call.ins = << Instr("Free", NoLabel, "", << Scope[visit_call.node.args[1].name] >>) >>
        ELSE visit_call.exc = "UnsupportedFeatureError"

\* The operands of the binary operator visited, as the visitor lowers them
OperandsLowered ==
    [i \in 1..2 |-> ExprVisitor_visit(visit_call.node.args[i], TRUE)]

\* The operands have sorts the operator does not take: different sorts, or
\* for an arithmetic or ordering operator a sort that is not arithmetic.  A
\* pointer variable under && and || stands for its nil test, of sort Bool.
OperandSortsMismatch ==
    LET op == visit_call.node.op
        sorts == [i \in 1..2 |-> sort_of(Operand(op, OperandsLowered[i].expr))]
    IN  \/ sorts[1] # sorts[2]
        \/ op \in {"+", "-", "*", "/", "%", "<", "<=", ">", ">="} /\ sorts[1] \notin {INT, REAL}

\* C24: lowering raises UnsupportedFeatureError whenever the operands of a
\* binary operator have different sorts or a non-arithmetic sort under an
\* arithmetic or ordering operator, whenever the two sides of an assignment
\* have different sorts, whenever the sort of a returned expression differs
\* from the return sort of the function, and whenever a condition has a sort
\* that is neither Bool nor a pointer.
C24_SortMismatchUnsupported ==
    /\ (/\ visit_call.kind = "expr" /\ visit_call.node.k = "BinaryOp"
        /\ \A i \in 1..2 : OperandsLowered[i].exc = "none"
        /\ OperandSortsMismatch) => visit_call.exc = "UnsupportedFeatureError"
    /\ (/\ visit_call.kind = "Assignment" /\ visit_call.op = "="
        /\ visit_call.node.k # "FuncCall"
        /\ visit_expr(visit_call.lvalue).exc = "none"
        /\ visit_expr(visit_call.node).exc = "none"
        /\ sort_of(visit_expr(visit_call.lvalue).expr) # sort_of(visit_expr(visit_call.node).expr))
            => visit_call.exc = "UnsupportedFeatureError"
    /\ (/\ visit_call.kind = "Return"
        /\ visit_call.node # NoCNode => visit_expr(visit_call.node).exc = "none"
        /\ ~(visit_call.return_sort = BOOL /\ IsPtrID(visit_call.node))
        /\ visit_call.return_sort #
              (IF visit_call.node = NoCNode THEN UNIT
               ELSE sort_of(visit_expr(visit_call.node).expr)))
            => visit_call.exc = "UnsupportedFeatureError"
    /\ (/\ visit_call.kind = "condition"
        /\ visit_expr(visit_call.node).exc = "none"
        /\ sort_of(visit_expr(visit_call.node).expr) # BOOL
        /\ ~is_ptr(sort_of(visit_expr(visit_call.node).expr)))
            => visit_call.exc = "UnsupportedFeatureError"

-----------------------------------------------------------------------------
(* Lowering of a file: the table of sorts and the table of functions *)

\* The top-level items of a file: Decl(None, Struct(name, decls)),
\* Decl(None, Enum(name, values)), FuncDef(decl, body).  A field of a struct
\* is a pointer to the struct itself or an int.
StructDecl(name, decls) == [k |-> "Struct", name |-> name, decls |-> decls, values |-> <<>>,
                            type |-> "", body |-> <<>>]
EnumDecl(name, values) == [k |-> "Enum", name |-> name, decls |-> <<>>, values |-> values,
                           type |-> "", body |-> <<>>]
FuncDef(name, type, body) == [k |-> "FuncDef", name |-> name, decls |-> <<>>, values |-> <<>>,
                              type |-> type, body |-> body]
PtrField(name) == [name |-> name, ptr |-> TRUE]
IntField(name) == [name |-> name, ptr |-> FALSE]

\* What a table records under a name: the definition it came from
Native(name) == [k |-> "native", name |-> name, decls |-> <<>>, values |-> <<>>,
                 type |-> "", body |-> <<>>]

\* FileVisitor.__init__: self.sorts
NativeSorts == [name \in {"int", "bool", "float", "double", "void", "_Bool"} |-> Native(name)]

\* The outcome of the visit of one item: the two tables and the exception
Tables(sorts, functions, exc) == [sorts |-> sorts, functions |-> functions, exc |-> exc]

\* Some name stands twice in the sequence
Repeats(names) == \E i, j \in 1..Len(names) : i < j /\ names[i] = names[j]

\* EnumDeclVisitor.visit: the exception it raises
EnumDeclVisitor_visit(node) ==
    IF Repeats(node.values) THEN "DuplicateDefinitionError" ELSE "none"

\* StructDeclVisitor.visit_Struct: the exception it raises
StructDeclVisitor_visit_Struct(struct_node) ==
    IF Repeats([i \in 1..Len(struct_node.decls) |-> struct_node.decls[i].name])
    THEN "DuplicateDefinitionError"
    ELSE IF \A i \in 1..Len(struct_node.decls) : ~struct_node.decls[i].ptr
    THEN "UnsupportedFeatureError"
    ELSE "none"

\* Function(func_name, self.scopes.vars, return_sort, tuple(instructions)):
\* the exception of the constructor, which is handed a set of Vars as env
FunctionOverVars(instructions) ==
    LET ids == [i \in 1..Len(instructions) |-> i]
        l == _build_labels(instructions, ids, 0, NoLabels)
    IN  IF l.exc # "none" THEN l.exc
        ELSE LET b == _build_info(instructions, ids, l.labels, 0, NoInfos)
             IN  IF b.exc # "none" THEN b.exc ELSE "AttributeError"

\* FuncDefVisitor.visit_FuncDef: the exception it raises
FuncDefVisitor_visit_FuncDef(node, sorts) ==
    IF node.type \notin DOMAIN sorts THEN "UnknownTypeError"
    ELSE Once(Visit(Compound(node.body), 0),
              LAMBDA instructions :
                 IF instructions.exc # "none" THEN instructions.exc
                 ELSE Once(FunctionOverVars(instructions.ins),
                           LAMBDA exc : IF exc = "IncompatibleReturnTypeError"
                                        THEN "UnsupportedFeatureError" ELSE exc))

\* FileVisitor.visit_Struct / visit_Enum
FileVisitor_visit_sort(node, t, exc) ==
    IF exc # "none" THEN Tables(t.sorts, t.functions, exc)
    ELSE IF node.name \in DOMAIN t.sorts
    THEN Tables(t.sorts, t.functions, "DuplicateDefinitionError")
    ELSE Tables(Put(t.sorts, node.name, node), t.functions, "none")

\* FileVisitor.visit_FuncDef
FileVisitor_visit_FuncDef(node, t) ==
    Once(FuncDefVisitor_visit_FuncDef(node, t.sorts),
         LAMBDA exc :
            IF exc # "none" THEN Tables(t.sorts, t.functions, exc)
            ELSE IF node.name \in DOMAIN t.functions
            THEN Tables(t.sorts, t.functions, "DuplicateDefinitionError")
            ELSE Tables(t.sorts, Put(t.functions, node.name, node), "none"))

\* FileVisitor.visit_FileAST: for ext in node.ext: self.visit(ext)
RECURSIVE FileVisitor_visit_FileAST(_, _)
FileVisitor_visit_FileAST(ext, t) ==
    IF ext = <<>> \/ t.exc # "none" THEN t
    ELSE FileVisitor_visit_FileAST(Tail(ext),
            CASE Head(ext).k = "Struct" ->
                    FileVisitor_visit_sort(Head(ext), t, StructDeclVisitor_visit_Struct(Head(ext)))
              [] Head(ext).k = "Enum" ->
                    FileVisitor_visit_sort(Head(ext), t, EnumDeclVisitor_visit(Head(ext)))
              [] OTHER -> FileVisitor_visit_FuncDef(Head(ext), t))

\* The items of the files visited
MaxExt == 3
FieldLists ==
    {<< PtrField("next") >>, << PtrField("next"), IntField("value") >>, << IntField("value") >>,
     << PtrField("next"), PtrField("next") >>}
EnumLists == {<<"RED", "GREEN">>, <<"YELLOW">>, <<"RED", "RED">>}
Exts ==
    {StructDecl(name, decls) : name \in {"node", "Color"}, decls \in FieldLists}
        \cup {EnumDecl(name, values) : name \in {"node", "Color", "bool"}, values \in EnumLists}
        \cup {FuncDef(name, type, body) : name \in {"f", "g"}, type \in {"void", "int", "list"},
                                          body \in {<<>>, << AssignOne >>}}
Files == UNION {[1..n -> Exts] : n \in 0..MaxExt}

NoFileCall == [ext |-> <<>>, visited |-> FALSE, sorts |-> NativeSorts,
               functions |-> [n \in {} |-> Native(n)], exc |-> "none"]

\* FileVisitor.__init__
FileInit == file_call = NoFileCall

\* FileVisitor().visit(FileAST(ext))
visit_FileAST(ext) ==
    \E t \in {FileVisitor_visit_FileAST(ext, Tables(NativeSorts, NoFileCall.functions, "none"))} :
        file_call' = [ext |-> ext, visited |-> TRUE, sorts |-> t.sorts,
                      functions |-> t.functions, exc |-> t.exc]

-----------------------------------------------------------------------------
(* Lowering of a file: properties *)

\* The item defines a sort: a struct or an enum
SortItem(item) == item.k \in {"Struct", "Enum"}

\* The item is a definition of the supported subset: a struct has fields of
\* distinct names, one of them a pointer to the struct; a function returns a
\* known type
WellFormed(item) ==
    CASE item.k = "Struct" ->
            /\ ~Repeats([i \in 1..Len(item.decls) |-> item.decls[i].name])
            /\ \E i \in 1..Len(item.decls) : item.decls[i].ptr
      [] item.k = "Enum" -> TRUE
      [] OTHER -> item.type \in DOMAIN NativeSorts

\* Item i of the file defines a name again: a struct or an enum named like
\* a sort of the table, an enumerator repeated in its enum, a function named
\* like an earlier function
Redefines(ext, i) ==
    \/ /\ SortItem(ext[i])
       /\ \/ ext[i].name \in DOMAIN NativeSorts
          \/ \E j \in 1..(i - 1) : SortItem(ext[j]) /\ ext[j].name = ext[i].name
    \/ ext[i].k = "Enum" /\ Repeats(ext[i].values)
    \/ /\ ext[i].k = "FuncDef"
       /\ \E j \in 1..(i - 1) : ext[j].k = "FuncDef" /\ ext[j].name = ext[i].name

\* C25: a file of well-formed definitions one of which defines a name again
\* (a struct or an enum named like a sort of the table, an enumerator
\* repeated in its enum, a function named like an earlier function) is
\* rejected with DuplicateDefinitionError, and the tables hold the earlier
\* definitions.
C25_RedefinitionRejected ==
    (/\ file_call.visited
     /\ \A i \in 1..Len(file_call.ext) : WellFormed(file_call.ext[i])
     /\ \E i \in 1..Len(file_call.ext) : Redefines(file_call.ext, i)) =>
        LET first == CHOOSE i \in 1..Len(file_call.ext) :
                        /\ Redefines(file_call.ext, i)
                        /\ \A j \in 1..(i - 1) : ~Redefines(file_call.ext, j)
        IN  /\ file_call.exc = "DuplicateDefinitionError"
            /\ \A j \in 1..(first - 1) :
                  LET table == IF SortItem(file_call.ext[j]) THEN file_call.sorts
                               ELSE file_call.functions
                  IN  /\ file_call.ext[j].name \in DOMAIN table
                      /\ table[file_call.ext[j].name] = file_call.ext[j]

-----------------------------------------------------------------------------
(* Enviroment *)

\* Sort.is_struct
is_struct(sort) == sort \in {NODE, BIRFC}

\* no check on the pointee of a local
points_elsewhere_never(var, node_sort) == FALSE

\* var.sort.is_ptr() and var.sort.pointee is not self.node_sort
points_elsewhere(var, node_sort) == is_ptr(var.sort) /\ pointee_of[var.sort] # node_sort

\* Enviroment.__post_init__: the exception it raises
Enviroment_post_init(node_sort, root, local_vars) ==
    IF root.sort # Pointer(node_sort) THEN "ValueError"
    ELSE IF \E var \in local_vars : root.name = var.name THEN "ValueError"
    ELSE IF Cardinality({root.name} \cup {v.name : v \in local_vars}) # 1 + Cardinality(local_vars)
    THEN "ValueError"
    ELSE IF \E var \in local_vars : is_struct(var.sort) THEN "ValueError"
    ELSE IF \E var \in local_vars : points_elsewhere(var, node_sort) THEN "ValueError"
    ELSE "none"

\* The arguments of the constructor calls made
MaxLocals == 2
EnvNames == {"root", "a", "q"}
EnvSorts == {INT, REAL, NODE, PTR_NODE, PTR_BIRFC, PTR_INT}
EnvVars == {Leaf("Var", name, sort) : name \in EnvNames, sort \in EnvSorts}
EnvLocals == {local_vars \in SUBSET EnvVars : Cardinality(local_vars) <= MaxLocals}

NoEnvCall == [made |-> FALSE, node_sort |-> 0, root |-> NoExpr, local_vars |-> {},
              exc |-> "none", vars |-> {}]

EnvInit == env_call = NoEnvCall

\* Enviroment(node_sort, root, local_vars), and env.vars of the object made
Enviroment(node_sort, root, local_vars) ==
    \E exc \in {Enviroment_post_init(node_sort, root, local_vars)} :
        env_call' = [made |-> TRUE, node_sort |-> node_sort, root |-> root,
                     local_vars |-> local_vars, exc |-> exc,
                     vars |-> IF exc = "none" THEN local_vars \cup {root} ELSE {}]

-----------------------------------------------------------------------------
(* Enviroment: properties *)

\* What the constructor asks of its arguments
EnvWellFormed ==
    /\ env_call.root.sort = Pointer(env_call.node_sort)
    /\ \A v \in env_call.local_vars : v.name # env_call.root.name
    /\ \A v, w \in env_call.local_vars : v # w => v.name # w.name
    /\ \A v \in env_call.local_vars : ~is_struct(v.sort)
    /\ \A v \in env_call.local_vars : is_ptr(v.sort) => pointee_of[v.sort] = env_call.node_sort

\* C26: Enviroment(node_sort, root, local_vars) is constructed exactly when
\* root's sort is Pointer(node_sort), the names of root and of the locals are
\* pairwise distinct, no local has a struct sort and every pointer local
\* points to node_sort; otherwise it raises ValueError; the pointer
\* variables of a constructed environment all point to node_sort.
C26_EnviromentValidation ==
    env_call.made =>
        /\ env_call.exc = (IF EnvWellFormed THEN "none" ELSE "ValueError")
        /\ \A v \in env_call.vars : is_ptr(v.sort) => pointee_of[v.sort] = env_call.node_sort

\* C26 witness: an environment with a pointer local was constructed
C26_Witness ==
    /\ env_call.made /\ env_call.exc = "none"
    /\ Cardinality(env_call.vars) = 3
    /\ \E v \in env_call.local_vars : is_ptr(v.sort)

\* two locals of one name and different sorts were rejected
C26_WitnessNames ==
    /\ env_call.made /\ env_call.exc = "ValueError"
    /\ env_call.root.sort = Pointer(env_call.node_sort)
    /\ \E v, w \in env_call.local_vars : v.name = w.name /\ v.sort # w.sort
    /\ \A v \in env_call.local_vars :
          v.name # env_call.root.name /\ ~is_struct(v.sort) /\ ~is_ptr(v.sort)

\* a local that points to another sort was rejected
C26_WitnessPointee ==
    /\ env_call.made /\ env_call.exc = "ValueError"
    /\ env_call.root.sort = Pointer(env_call.node_sort)
    /\ env_call.local_vars = {Leaf("Var", "q", PTR_BIRFC)}

-----------------------------------------------------------------------------
(* The blocks of a function body: declarations and uses of variables *)

\* The sorts of the locals declared
BlockSorts == {INT, REAL}

NoBlockVisit == [kind |-> "", name |-> <<>>, fresh |-> FALSE, var |-> NoVar]

\* A FuncDefVisitor before visit_FuncDef: no block of the body is open
BlockInit == block = [entered |-> FALSE, declared |-> <<>>, last |-> NoBlockVisit, exc |-> "none"]

\* visit_FuncDef up to the visit of the body: self.scopes.push_scope()
enter_FuncDef ==
    /\ ~block.entered
    /\ push_scope
    /\ block' = [block EXCEPT !.entered = TRUE, !.declared = << EmptyFrame >>]

\* visit_Compound begins on a block nested in the body (a bare block, the
\* body of an if or a while): it visits the items, and touches no scope
enter_Compound ==
    /\ block.entered /\ block.exc = "none"
    /\ Len(block.declared) <= MaxNest
    /\ block' = [block EXCEPT !.declared = Append(@, EmptyFrame), !.last = NoBlockVisit]
    /\ UNCHANGED scopeVars

\* visit_Compound ends on a nested block
leave_Compound ==
    /\ block.entered /\ block.exc = "none"
    /\ Len(block.declared) > 1
    /\ block' = [block EXCEPT !.declared = Front(@), !.last = NoBlockVisit]
    /\ UNCHANGED scopeVars

\* visit_Decl of a local in the innermost open block
visit_Decl(name, sort) ==
    /\ block.entered /\ block.exc = "none"
    /\ declare_variable(name, sort)
    /\ LET current == Last(block.declared)
       IN  block' = [block EXCEPT
                        !.exc = scope_exc',
                        !.last = [kind |-> "Decl", name |-> name,
                                  fresh |-> name \notin DOMAIN current,
                                  var |-> IF scope_exc' = "none" THEN Last(stack')[name] ELSE NoVar],
                        !.declared = IF scope_exc' = "none"
                                     THEN Append(Front(@), Put(current, name, Last(stack')[name]))
                                     ELSE @]

\* ExprVisitor.visit_ID on a use of the name in the innermost open block
visit_ID(name) ==
    /\ block.entered /\ block.exc = "none"
    /\ IF Lookup(stack, name) = NoVar
       THEN /\ UNCHANGED scopeVars
            \* UndefinedSymbolError(message): the class takes (line, name)
            /\ block' = [block EXCEPT !.exc = "TypeError",
                                      !.last = [NoBlockVisit EXCEPT !.kind = "ID", !.name = name]]
       ELSE /\ get_variable(name)
            /\ block' = [block EXCEPT !.last = [kind |-> "ID", name |-> name, fresh |-> FALSE,
                                                var |-> Lookup(stack, name)]]

-----------------------------------------------------------------------------
(* The blocks of a function body: properties *)

\* The open blocks that declare the name
DeclaringBlocks(name) == {i \in 1..Len(block.declared) : name \in DOMAIN block.declared[i]}

\* C29: the symbol table is block-scoped: every open block of the body has
\* its scope frame; a local declared in a block that does not declare its
\* name yet is accepted, and is a Var other than the ones the enclosing
\* blocks declare for the name; a use resolves to the Var of the innermost
\* open block that declares the name, and to none when no open block does.
C29_BlockScoped ==
    /\ block.entered /\ block.exc = "none" => Len(stack) = Len(block.declared)
    /\ (block.last.kind = "Decl" /\ block.last.fresh) =>
          /\ block.exc = "none"
          /\ \A i \in 1..(Len(block.declared) - 1) :
                block.last.name \in DOMAIN block.declared[i] =>
                    block.declared[i][block.last.name] # block.last.var
    /\ block.last.kind = "ID" =>
          IF DeclaringBlocks(block.last.name) = {}
          THEN block.exc # "none"
          ELSE /\ block.exc = "none"
               /\ block.last.var =
                     block.declared[Max(DeclaringBlocks(block.last.name))][block.last.name]

-----------------------------------------------------------------------------
(* Lowering: properties *)

\* C14: when the construction of the Function of a lowered body fails, the
\* lowering pass raises UnsupportedFeatureError.
C14_ConstructionFailureWrapped ==
    (cfg.done /\ low_exc # "none") => low_exc = "UnsupportedFeatureError"

\* The branches of the statement visited last, as they lower on their own
LoweredTrue == Visit(visited.stmt.a[1], visited.counter)
LoweredFalse ==
    IF visited.stmt.b = <<>> THEN Yielded(<<>>, LoweredTrue.counter)
    ELSE Visit(visited.stmt.b[1], LoweredTrue.counter)

C10_UserLabelKept ==
    (visited.stmt.k \in {"If", "While"} /\ LoweredTrue.ins[1].label # NoLabel) =>
        LET out == visited.out
            user == LoweredTrue.ins[1].label
        IN  IF visited.stmt.k = "If"
            THEN out[Len(LoweredFalse.ins) + 3].label = user /\ out[1].target = user
            ELSE out[2].label = user /\ out[Len(out)].target = user

\* The labels of the statements lowered, and the labels an if or a while
\* makes from a value of the counter below n
UserLabels == {"L"}
SynthLabels(n) ==
    {prefix \o ToString(i) :
        prefix \in {"#IFTRUE_", "#ENDIF_", "#WHILE_BODY_", "#WHILE_COND_"}, i \in 0..(n - 1)}

\* Two instructions of the body carry the label
StandsTwice(label) ==
    \E i, j \in 1..Len(lowered) : i < j /\ lowered[i].label = label /\ lowered[j].label = label

\* C27: the labels synthesized for the ifs and whiles of a body are made
\* from values of the counter already taken, no two instructions carry the
\* same one, and none is a user label; so the label scan of the Function
\* constructor fails on a lowered body only when a user label stands twice.
C27_SynthesizedLabelsDistinct ==
    /\ \A i \in 1..Len(lowered) :
          lowered[i].label # NoLabel =>
             lowered[i].label \in UserLabels \cup SynthLabels(cond_counter)
    /\ \A label \in SynthLabels(cond_counter) : ~StandsTwice(label) /\ label \notin UserLabels
    /\ _build_labels(lowered, [i \in 1..Len(lowered) |-> i], 0, NoLabels).exc # "none"
          => \E label \in UserLabels : StandsTwice(label)

\* C27 witness: an if nested in an if was lowered after another if, the
\* three took the counter values 0, 1 and 2, and the labels of the body were
\* built.
C27_Witness ==
    /\ cond_counter = 3
    /\ \A label \in {"#ENDIF_0", "#ENDIF_1", "#ENDIF_2"} :
          \E i \in 1..Len(lowered) : lowered[i].label = label
    /\ visited.stmt.k = "If" /\ visited.counter = 1
    /\ cfg.built

\* a while and a user label stand in one body
C27_WitnessWhile ==
    /\ \E i \in 1..Len(lowered) : lowered[i].label = "#WHILE_COND_0"
    /\ \E i \in 1..Len(lowered) : lowered[i].label = "L"
    /\ cfg.done

\* C28: `goto L` lowers to Goto(L); a bare `L:` lowers to a Skip labelled
\* L; `L: S` lowers to all the instructions of S, the first of them
\* labelled L.
C28_LabelKeepsAllInstructions ==
    /\ visited.stmt.k = "Goto" =>
          visited.out = << Instr("Goto", NoLabel, visited.stmt.name, <<>>) >>
    /\ visited.stmt.k = "Label" =>
          IF visited.stmt.a = <<>>
          THEN visited.out = << Instr("Skip", visited.stmt.name, "", <<>>) >>
          ELSE LET S == Visit(visited.stmt.a[1], visited.counter).ins
               IN  visited.out = << with_label(Head(S), visited.stmt.name) >> \o Tail(S)

-----------------------------------------------------------------------------
(* Specifications *)

Init == ScopeInit /\ SortInit /\ ExprInit /\ FunInit /\ LowerInit /\ VisitInit /\ FileInit /\ EnvInit /\ BlockInit

\* The ScopeStack, driven by any sequence of its methods
Next ==
    \/ push_scope /\ UNCHANGED <<sortVars, exprVars, funVars, lowerVars, visitVars, unitVars>>
    \/ pop_scope /\ UNCHANGED <<sortVars, exprVars, funVars, lowerVars, visitVars, unitVars>>
    \/ \E name \in Names : get_variable(name) /\ UNCHANGED <<sortVars, exprVars, funVars, lowerVars, visitVars, unitVars>>
    \/ \E name \in Names, sort \in ScopeSorts :
          declare_variable(name, sort) /\ UNCHANGED <<sortVars, exprVars, funVars, lowerVars, visitVars, unitVars>>
    \/ clear /\ UNCHANGED <<sortVars, exprVars, funVars, lowerVars, visitVars, unitVars>>

Spec == Init /\ [][Next]_allVars

\* The sort registry, driven by any sequence of constructions
SortNext ==
    \/ \E cls \in {"Int", "Real", "Unit"} : MakeNative(cls) /\ UNCHANGED <<scopeVars, exprVars, funVars, lowerVars, visitVars, unitVars>>
    \/ \E a \in EnumArgs : MakeEnum(a[1], a[2]) /\ UNCHANGED <<scopeVars, exprVars, funVars, lowerVars, visitVars, unitVars>>
    \/ \E a \in StructArgs : MakeStruct(a[1], a[2], a[3]) /\ UNCHANGED <<scopeVars, exprVars, funVars, lowerVars, visitVars, unitVars>>
    \/ \E i \in 1..Len(pool) : MakePointer(i) /\ UNCHANGED <<scopeVars, exprVars, funVars, lowerVars, visitVars, unitVars>>
    \/ \E i \in 1..Len(pool), v \in {"TRUE", "FALSE", "MAYBE"} :
          MakeEnumConst(i, v) /\ UNCHANGED <<scopeVars, exprVars, funVars, lowerVars, visitVars, unitVars>>
    \/ \E i \in 1..Len(pool) : fields(i) /\ UNCHANGED <<scopeVars, exprVars, funVars, lowerVars, visitVars, unitVars>>

SortSpec == Init /\ [][SortNext]_allVars

\* The expression constructors, applied to the leaves and to the nodes built so far
ExprNext ==
    \/ \E op \in AssociativeOps, l, r \in Operands :
          MakeAssociative(op, <<l, r>>) /\ UNCHANGED <<scopeVars, sortVars, funVars, lowerVars, visitVars, unitVars>>
    \/ \E op \in AssociativeOps, l, m, r \in Operands :
          MakeAssociative(op, <<l, m, r>>) /\ UNCHANGED <<scopeVars, sortVars, funVars, lowerVars, visitVars, unitVars>>
    \/ \E op \in BinaryOps, l, r \in Operands :
          MakeBinary(op, l, r) /\ UNCHANGED <<scopeVars, sortVars, funVars, lowerVars, visitVars, unitVars>>

ExprSpec == Init /\ [][ExprNext]_allVars

\* Every operator class, applied to operands of every kind, sort_of called on
\* the result, and the pointer-assignment instructions on Vars and Fields
OpNext ==
    \/ \E op \in UnaryOperators, argument \in OpOperands :
          Operator(op, <<argument>>) /\ UNCHANGED <<scopeVars, sortVars, funVars, lowerVars, visitVars, unitVars>>
    \/ \E op \in BinaryOperators, left, right \in OpOperands :
          Operator(op, <<left, right>>) /\ UNCHANGED <<scopeVars, sortVars, funVars, lowerVars, visitVars, unitVars>>
    \/ \E expr \in OpOperands :
          call_sort_of(expr) /\ UNCHANGED <<scopeVars, sortVars, funVars, lowerVars, visitVars, unitVars>>
    \/ \E left, right \in PtrTestVars :
          PtrAssignPtr(left, right) /\ UNCHANGED <<scopeVars, sortVars, exprVars, lowerVars, visitVars, unitVars>>
    \/ \E left \in PtrTestVars, right \in PtrTestFields :
          PtrAssignField(left, right) /\ UNCHANGED <<scopeVars, sortVars, exprVars, lowerVars, visitVars, unitVars>>
    \/ \E left \in PtrTestFields, right \in PtrTestVars :
          FieldAssignPtr(left, right) /\ UNCHANGED <<scopeVars, sortVars, exprVars, lowerVars, visitVars, unitVars>>
    \/ \E pointer \in PtrTestVars :
          New(pointer) /\ UNCHANGED <<scopeVars, sortVars, exprVars, lowerVars, visitVars, unitVars>>
    \/ \E pointer \in PtrTestVars :
          Free(pointer) /\ UNCHANGED <<scopeVars, sortVars, exprVars, lowerVars, visitVars, unitVars>>

OpSpec == Init /\ [][OpNext]_allVars

\* A Function built from any tuple of the instruction objects, then queried
FunNext ==
    \/ \E local_vars \in LocalVars, return_type \in ReturnTypes, instructions \in Programs :
          Function(local_vars, return_type, instructions)
             /\ UNCHANGED <<scopeVars, sortVars, exprVars, lowerVars, visitVars, unitVars>>
    \/ \E pc \in 0..MaxLen : info_at(pc) /\ UNCHANGED <<scopeVars, sortVars, exprVars, lowerVars, visitVars, unitVars>>

FunSpec == Init /\ [][FunNext]_allVars

\* The body of a function lowered statement by statement, then handed to Function
LowerNext ==
    \/ \E cond \in Conds, iftrue \in Nested, iffalse \in Optional(Nested) :
          body_If(cond, iftrue, iffalse) /\ UNCHANGED <<scopeVars, sortVars, exprVars, funVars, visitVars, unitVars>>
    \/ \E cond \in Conds, stmt \in Nested :
          body_While(cond, stmt) /\ UNCHANGED <<scopeVars, sortVars, exprVars, funVars, visitVars, unitVars>>
    \/ \E stmt \in Optional(Nested) :
          body_Label("L", stmt) /\ UNCHANGED <<scopeVars, sortVars, exprVars, funVars, visitVars, unitVars>>
    \/ body_Goto("L") /\ UNCHANGED <<scopeVars, sortVars, exprVars, funVars, visitVars, unitVars>>
    \/ \E lvalue \in {ID("x"), ID("y")}, rvalue \in RValues :
          body_Assignment(lvalue, rvalue) /\ UNCHANGED <<scopeVars, sortVars, exprVars, funVars, visitVars, unitVars>>
    \/ \E block_items \in Blocks :
          body_Compound(block_items) /\ UNCHANGED <<scopeVars, sortVars, exprVars, funVars, visitVars, unitVars>>
    \/ visit_FuncDef /\ UNCHANGED <<scopeVars, sortVars, exprVars, funVars, visitVars, unitVars>>

LowerSpec == Init /\ [][LowerNext]_allVars

\* One node lowered by a new visitor: an expression, a condition, a return,
\* an assignment, a call
VisitNext ==
    \/ NewVisitor /\ \E node \in CExprs :
          lower_expr(node) /\ UNCHANGED <<scopeVars, sortVars, exprVars, funVars, lowerVars, unitVars>>
    \/ NewVisitor /\ \E node \in CExprs :
          lower_condition(node) /\ UNCHANGED <<scopeVars, sortVars, exprVars, funVars, lowerVars, unitVars>>
    \/ NewVisitor /\ \E expr \in CExprs \cup {NoCNode}, return_sort \in ReturnSorts :
          lower_Return(expr, return_sort)
             /\ UNCHANGED <<scopeVars, sortVars, exprVars, funVars, lowerVars, unitVars>>
    \/ NewVisitor /\ \E op \in {"=", "+="}, lvalue \in LValues, rvalue \in AssignedValues :
          lower_Assignment(op, lvalue, rvalue)
             /\ UNCHANGED <<scopeVars, sortVars, exprVars, funVars, lowerVars, unitVars>>
    \/ NewVisitor /\ \E call \in Calls \cup {FuncCall("list_add", << ID("p") >>)} :
          lower_FuncCall(call.name, call.args)
             /\ UNCHANGED <<scopeVars, sortVars, exprVars, funVars, lowerVars, unitVars>>

VisitSpec == Init /\ [][VisitNext]_allVars

\* One file lowered by a new FileVisitor
FileNext ==
    ~file_call.visited /\ \E ext \in Files :
        visit_FileAST(ext)
           /\ UNCHANGED <<scopeVars, sortVars, exprVars, funVars, lowerVars, visitVars, env_call, block>>

FileSpec == Init /\ [][FileNext]_allVars

\* One Enviroment constructed
EnvNext ==
    ~env_call.made /\ \E node_sort \in {NODE, BIRFC}, local_vars \in EnvLocals,
                         root \in {Leaf("Var", "root", sort) : sort \in EnvSorts} :
        Enviroment(node_sort, root, local_vars)
           /\ UNCHANGED <<scopeVars, sortVars, exprVars, funVars, lowerVars, visitVars, file_call, block>>

EnvSpec == Init /\ [][EnvNext]_allVars

\* The visit of a function body: its blocks entered and left, locals
\* declared, names used
BlockNext ==
    \/ enter_FuncDef /\ UNCHANGED <<sortVars, exprVars, funVars, lowerVars, visitVars, file_call, env_call>>
    \/ enter_Compound /\ UNCHANGED <<sortVars, exprVars, funVars, lowerVars, visitVars, file_call, env_call>>
    \/ leave_Compound /\ UNCHANGED <<sortVars, exprVars, funVars, lowerVars, visitVars, file_call, env_call>>
    \/ \E name \in Names, sort \in BlockSorts :
          visit_Decl(name, sort)
             /\ UNCHANGED <<sortVars, exprVars, funVars, lowerVars, visitVars, file_call, env_call>>
    \/ \E name \in Names :
          visit_ID(name)
             /\ UNCHANGED <<sortVars, exprVars, funVars, lowerVars, visitVars, file_call, env_call>>

BlockSpec == Init /\ [][BlockNext]_allVars

====
